---- MODULE Spec2Model ----
(***************************************************************************)
(* Write-back block queue of block-queue.c (first variant in the file,     *)
(* lines 1-750): pending queue, in-flight list, section index, overlap     *)
(* resolver, asynchronous submission and the error / flush state machine.  *)
(*                                                                         *)
(* Pointers are modelled by a heap: reqs maps a request id to the request  *)
(* object, and queue / in_flight / sections are the three linked lists,    *)
(* holding ids.  Each C function that takes the BlockQueue is an operator  *)
(* over a record w of the queue's fields; a function whose outcome depends *)
(* on the backend (dispatch failure, error handler verdict) returns the    *)
(* SET of the records it can produce.                                      *)
(*                                                                         *)
(* The table cache of block/qcow2.h, whose flushes feed the queue in       *)
(* deployment, is modelled next to it: see "qcow2 table cache" below.      *)
(***************************************************************************)
EXTENDS Integers, Sequences, FiniteSets, TLC

\* ------------------------------------------------------------ bounds
NumCtx == 2
DiskSize == 2
NumPat == 2
MaxReqs == 3
MaxSection == 2
MaxAcb == 2
MaxErrors == 1
NumCaches == 2
CacheSize == 2
NumTabs == 2
NumCo == 2
MaxHeld == 2
MaxHits == 33

\* ------------------------------------------------- program constants
BARRIER_THRESHOLD == 50
EIO == 5
ENOSPC == 28
\* Variant: every open flag counts as a writeback mode.
WRITEBACK_MODES_any == {"BDRV_O_RDWR", "BDRV_O_NOCACHE", "BDRV_O_CACHE_WB"}

WRITEBACK_MODES == {"BDRV_O_NOCACHE", "BDRV_O_CACHE_WB"}

VARIABLES
    reqs,               \* heap of BlockQueueRequest objects, by id
    queue,              \* bq->queue: ids of the pending requests, in list order
    in_flight,          \* bq->in_flight
    sections,           \* bq->sections
    queue_size,
    flushing,
    num_waiting_for_cb,
    error_ret,
    in_flight_num,
    in_flight_type,
    ctx,                \* context->section of each BlockQueueContext
    disk,               \* the backing device, byte by byte
    acb,                \* the BlockQueueAIOCBs handed out by blkqueue_aio_flush
    open_flags,         \* bs->open_flags
    RUN_TESTS,          \* TRUE in the unit-test build (check-block-queue.c)
    flush_pc,           \* position of the caller inside blkqueue_flush
    flush_res,          \* blkqueue_flush's local res
    ghost,              \* the history recorded: "rw" (lastw), "acb" (owed),
                        \* "wb" (chist.wb), "dep" (chist.owes, chist.wr) or "none"
    nerr,               \* failed completions so far (bounds the run)
    werror,             \* the error handler's policy: "stop" or "report"
    lastw,              \* per context: its latest pwrite, while nobody overwrote it
    cache,              \* the Qcow2Cache objects
    co,                 \* the coroutines that call the cache
    chist               \* what has happened in the cache so far

vars == <<reqs, queue, in_flight, sections, queue_size, flushing,
          num_waiting_for_cb, error_ret, in_flight_num, in_flight_type,
          ctx, disk, acb, open_flags, RUN_TESTS, flush_pc, flush_res, ghost, nerr,
          werror, lastw, cache, co, chist>>

Ctxs == 1..NumCtx
Ids == 1..MaxReqs
AcbIds == 1..MaxAcb
Offsets == 0..(DiskSize - 1)
Pats == 1..NumPat

REQ_TYPE_WRITE == "REQ_TYPE_WRITE"
REQ_TYPE_BARRIER == "REQ_TYPE_BARRIER"

NoReq == [type |-> "free"]
NoAcb == [st |-> "unused", ncalls |-> 0, ret |-> 0, owed |-> {},
          waited |-> FALSE]
NoWrite == [off |-> 0 - 1, buf |-> <<>>]

MAX(a, b) == IF a > b THEN a ELSE b
MIN(a, b) == IF a < b THEN a ELSE b

\* Position of id in the list l, 0 when it is not linked there.
IndexOf(l, id) ==
    IF \E i \in 1..Len(l) : l[i] = id
    THEN CHOOSE i \in 1..Len(l) : l[i] = id
    ELSE 0

RemoveAt(l, i) == SubSeq(l, 1, i - 1) \o SubSeq(l, i + 1, Len(l))
InsertAt(l, i, id) == SubSeq(l, 1, i - 1) \o <<id>> \o SubSeq(l, i, Len(l))
Remove(l, id) == IF IndexOf(l, id) = 0 THEN l ELSE RemoveAt(l, IndexOf(l, id))

\* The BlockQueue (and what its handlers touch) as one record.
World ==
    [reqs |-> reqs, queue |-> queue, in_flight |-> in_flight,
     sections |-> sections, queue_size |-> queue_size, flushing |-> flushing,
     num_waiting_for_cb |-> num_waiting_for_cb, error_ret |-> error_ret,
     in_flight_num |-> in_flight_num, in_flight_type |-> in_flight_type,
     ctx |-> ctx, disk |-> disk, acb |-> acb, lastw |-> lastw,
     nerr |-> nerr]

\* Request ids are names for pointers: the state is kept with the live
\* requests named 1, 2, ... in the order in-flight list, then pending list.
Renumber(w) ==
    LET order == w.in_flight \o w.queue
        new(id) == IndexOf(order, id)
        map(l) == [i \in 1..Len(l) |-> new(l[i])]
    IN  [w EXCEPT !.reqs = [i \in DOMAIN w.reqs |-> IF i <= Len(order)
                                  THEN w.reqs[order[i]] ELSE NoReq],
                  !.queue = map(@),
                  !.in_flight = map(@),
                  !.sections = map(@),
                  !.acb = [a \in AcbIds |->
                              [@[a] EXCEPT !.owed = {new(x) : x \in @}]]]

SetWorld(w0) ==
    LET w == Renumber(w0) IN
    /\ reqs' = w.reqs
    /\ queue' = w.queue
    /\ in_flight' = w.in_flight
    /\ sections' = w.sections
    /\ queue_size' = w.queue_size
    /\ flushing' = w.flushing
    /\ num_waiting_for_cb' = w.num_waiting_for_cb
    /\ error_ret' = w.error_ret
    /\ in_flight_num' = w.in_flight_num
    /\ in_flight_type' = w.in_flight_type
    /\ ctx' = w.ctx
    /\ disk' = w.disk
    /\ acb' = w.acb
    /\ lastw' = w.lastw
    /\ nerr' = w.nerr

\* ------------------------------------------------ overlap resolver: reads
\* memcpy(new, old, size): n bytes from old[oldpos..] into out[newpos..]
\* (positions are 0-based, as the C pointers' offsets).
pread_handle_overlap(out, newpos, old, oldpos, n) ==
    [k \in 1..Len(out) |->
        IF k - 1 >= newpos /\ k - 1 < newpos + n
        THEN old[oldpos + (k - 1 - newpos) + 1]
        ELSE out[k]]

\* bdrv_pread(bs, offset, buf, size) into out[pos..]
bdrv_pread(w, out, pos, offset, size) ==
    [k \in 1..Len(out) |->
        IF k - 1 >= pos /\ k - 1 < pos + size
        THEN w.disk[offset + (k - 1 - pos)]
        ELSE out[k]]

\* Variant: no request is passed over for its section.
BelowFloor_never(req, min_section) == FALSE

\* blkqueue_check_queue_overlap: "if (req->section < min_section) continue"
BelowFloor(req, min_section) == req.section < min_section

RECURSIVE RdCheckQueueOverlap(_, _, _, _, _)
RECURSIVE blkqueue_pread(_, _, _, _, _, _)

\* blkqueue_check_queue_overlap with pread_handle_overlap, from list position
\* i down to the head.  st = [section, offset, pos, size, out, completed]:
\* context->section, *_offset, *_buf (as a position in out), *_size.
RdCheckQueueOverlap(w, q, st, min_section, i) ==
    IF i = 0 THEN st
    ELSE
    LET req == w.reqs[q[i]]
        offset == st.offset
        size == st.size
        end == offset + size
    IN  IF req.type # REQ_TYPE_WRITE
        THEN RdCheckQueueOverlap(w, q, st, min_section, i - 1)
        ELSE IF BelowFloor(req, min_section)
        THEN RdCheckQueueOverlap(w, q, st, min_section, i - 1)
        ELSE
        LET req_end == req.offset + Len(req.buf)
            sec == IF end > req.offset /\ offset < req_end
                   THEN MAX(st.section, req.section)
                   ELSE st.section
        IN  IF offset >= req.offset /\ end <= req_end
            THEN [st EXCEPT !.section = sec, !.completed = TRUE,
                     !.out = pread_handle_overlap(st.out, st.pos, req.buf,
                                                  offset - req.offset, size)]
            ELSE IF end >= req.offset /\ end <= req_end
            THEN RdCheckQueueOverlap(w, q,
                     [st EXCEPT !.section = sec,
                         !.out = pread_handle_overlap(st.out,
                                     st.pos + (req.offset - offset), req.buf, 0,
                                     end - req.offset),
                         !.size = req.offset - offset],
                     min_section, i - 1)
            ELSE IF offset >= req.offset /\ offset < req_end
            THEN RdCheckQueueOverlap(w, q,
                     [st EXCEPT !.section = sec,
                         !.out = pread_handle_overlap(st.out, st.pos, req.buf,
                                     offset - req.offset, req_end - offset),
                         !.pos = st.pos + (req_end - offset),
                         !.offset = req_end,
                         !.size = end - req_end],
                     min_section, i - 1)
            ELSE IF req.offset >= offset /\ req_end <= end
            THEN
                LET out1 == pread_handle_overlap(st.out,
                                st.pos + (req.offset - offset), req.buf, 0,
                                req_end - req.offset)
                    rec == blkqueue_pread(w, sec, req_end,
                                st.pos + (req_end - offset), end - req_end, out1)
                IN  RdCheckQueueOverlap(w, q,
                        [st EXCEPT !.section = rec.section, !.out = rec.out,
                            !.size = req.offset - offset],
                        min_section, i - 1)
            ELSE RdCheckQueueOverlap(w, q, [st EXCEPT !.section = sec],
                                     min_section, i - 1)

\* blkqueue_pread(context, offset, buf, size) for a context whose section is
\* `section`, reading into out[pos..]: the bytes read and the context's new
\* section.  (A failing bdrv_pread changes no state; it is not modelled.)
blkqueue_pread(w, section, offset, pos, size, out) ==
    LET st0 == [section |-> section, offset |-> offset, pos |-> pos,
                size |-> size, out |-> out, completed |-> FALSE]
        st1 == RdCheckQueueOverlap(w, w.queue, st0, 0, Len(w.queue))
        st2 == IF st1.completed THEN st1
               ELSE RdCheckQueueOverlap(w, w.in_flight, st1, 0, Len(w.in_flight))
    IN  IF st2.completed
        THEN [section |-> st2.section, out |-> st2.out]
        ELSE [section |-> st2.section,
              out |-> bdrv_pread(w, st2.out, st2.pos, st2.offset, st2.size)]

\* What blkqueue_pread(context c, offset, buf, size) leaves in buf.
PreadData(w, c, offset, size) ==
    blkqueue_pread(w, w.ctx[c], offset, 0, size, [k \in 1..size |-> 0]).out

PreadSection(w, c, offset, size) ==
    blkqueue_pread(w, w.ctx[c], offset, 0, size, [k \in 1..size |-> 0]).section

\* ------------------------------------------------------- request heap
HasFreeId(w) == \E i \in DOMAIN w.reqs : w.reqs[i] = NoReq
\* qemu_malloc(sizeof(*req)): the lowest unused id.
AllocId(w) ==
    CHOOSE i \in DOMAIN w.reqs :
        w.reqs[i] = NoReq /\ \A j \in 1..(i - 1) : w.reqs[j] # NoReq

\* Bookkeeping for the waiters: the requests a waiter still waits for.
OwedDone(acbs, id) ==
    [a \in AcbIds |->
        IF acbs[a].st = "attached"
        THEN [acbs[a] EXCEPT !.owed = @ \ {id}]
        ELSE acbs[a]]

\* Requests that leave the queue without having been written: 0 stands for them.
OwedLost(acbs, ids) ==
    [a \in AcbIds |->
        IF acbs[a].st = "attached" /\ acbs[a].owed \cap ids # {}
        THEN [acbs[a] EXCEPT !.owed = (@ \ ids) \cup {0}]
        ELSE acbs[a]]

\* blkqueue_free_request
blkqueue_free_request(w, id) == [w EXCEPT !.reqs[id] = NoReq]

\* Variant: only the first callback of the list is called.
CallAcbs_first(acbs, list, ret) ==
    [a \in AcbIds |->
        IF list # <<>> /\ list[1] = a
        THEN (IF ghost # "acb" THEN NoAcb
              ELSE [acbs[a] EXCEPT !.st = "called", !.ncalls = MIN(@ + 1, 2),
                                   !.ret = ret,
                                   !.owed = IF ret = 0 THEN @ ELSE {}])
        ELSE acbs[a]]

\* acb->common.cb(acb->common.opaque, ret); qemu_free(acb), for a request's list
CallAcbs(acbs, list, ret) ==
    [a \in AcbIds |->
        IF \E i \in 1..Len(list) : list[i] = a
        THEN (IF ghost # "acb" THEN NoAcb
              ELSE [acbs[a] EXCEPT !.st = "called", !.ncalls = MIN(@ + 1, 2),
                                   !.ret = ret,
                                   !.owed = IF ret = 0 THEN @ ELSE {}])
        ELSE acbs[a]]

RECURSIVE AllAcbs(_, _)
\* the acbs of the requests of list l, in list order
AllAcbs(w, l) ==
    IF l = <<>> THEN <<>> ELSE w.reqs[Head(l)].acbs \o AllAcbs(w, Tail(l))

InList(l, id) == \E i \in 1..Len(l) : l[i] = id
ListSet(l) == {l[i] : i \in 1..Len(l)}

\* Variant: the callbacks stay on the request's list after they were called.
FailFlushUnlink_keep(req) == req

\* blkqueue_fail_flush: QLIST_INIT(&req->acbs) after the callbacks were called
FailFlushUnlink(req) == [req EXCEPT !.acbs = <<>>]

\* Variant: with keep_queue false the Writes stay linked, the Barriers go.
FailFlushKept_writes(w) ==
    SelectSeq(w.queue, LAMBDA i : w.reqs[i].type = REQ_TYPE_WRITE)

\* blkqueue_fail_flush with keep_queue false: what is left of bq->queue after
\* "QTAILQ_REMOVE(&bq->queue, req, link)" has run for every request of it.
FailFlushKept(w) == SelectSeq(w.queue, LAMBDA i : FALSE)

\* Variant: blkqueue_fail_flush resets bq->flushing.
FailFlushing_zero(ret) == 0

\* blkqueue_fail_flush: "Make sure that blkqueue_flush stops running":
\* bq->flushing = ret
FailFlushing(ret) == ret

\* blkqueue_fail_flush(bq, ret, keep_queue).  The requests it unlinks are not
\* freed by the code; nothing refers to them any more, and the model frees
\* their ids.
blkqueue_fail_flush(w, ret, keep_queue) ==
    LET called == CallAcbs(w.acb, AllAcbs(w, w.queue), ret)
        kept == IF keep_queue THEN w.queue ELSE FailFlushKept(w)
        gone == ListSet(w.queue) \ ListSet(kept)
        cleared == [i \in DOMAIN w.reqs |->
                       IF i \in gone THEN NoReq
                       ELSE IF InList(w.queue, i) THEN FailFlushUnlink(w.reqs[i])
                       ELSE w.reqs[i]]
    IN  IF keep_queue
        THEN [w EXCEPT !.acb = called, !.reqs = cleared,
                       !.flushing = FailFlushing(ret)]
        ELSE [w EXCEPT !.acb = OwedLost(called, gone),
                       !.reqs = cleared,
                       !.sections = SelectSeq(w.sections,
                                        LAMBDA i : i \notin gone),
                       !.queue = kept,
                       !.lastw = [c \in Ctxs |-> NoWrite],
                       !.flushing = FailFlushing(ret)]

\* Variant: a popped Barrier stays on the section list.
blkqueue_pop_keepsection(w) ==
    IF w.queue = <<>> THEN w
    ELSE [w EXCEPT !.queue = Tail(@), !.queue_size = @ - 1]

\* blkqueue_pop
blkqueue_pop(w) ==
    IF w.queue = <<>> THEN w
    ELSE LET req == w.reqs[Head(w.queue)]
         IN  [w EXCEPT !.queue = Tail(@),
                       !.queue_size = @ - 1,
                       !.sections = IF req.type = REQ_TYPE_BARRIER
                                    THEN Tail(@) ELSE @]

\* The backend's part of bdrv_aio_pwrite(bs, offset, buf, size, ...), seen
\* when it completes with ret = 0: the bytes are on the device.
bdrv_aio_pwrite(w, req) ==
    [w EXCEPT !.disk = [o \in Offsets |->
        IF o >= req.offset /\ o < req.offset + Len(req.buf)
        THEN req.buf[o - req.offset + 1]
        ELSE @[o]]]

\* bq->error_handler(bq->error_opaque, ret), the callback given to
\* blkqueue_create: true keeps the queue for a retry (werror=stop), false
\* reports the error.  One policy for a run.
error_handler(ret) == IF werror = "stop" THEN {TRUE} ELSE {FALSE}

\* Variant: the callbacks are told 0 whatever the completion's result was.
CbRet_zero(w) == 0

\* The result blkqueue_process_request_cb hands to the callbacks of the
\* completed request: acb->common.cb(acb->common.opaque, bq->error_ret).
CbRet(w) == w.error_ret

\* Variant: requests are submitted while an error is latched.
SubmitError_never(w) == FALSE

\* blkqueue_submit_request: "if (bq->error_ret) return -1"
SubmitError(w) == w.error_ret # 0

\* Variant: requests are submitted while another one is in flight.
SubmitBusy_never(w) == FALSE

\* blkqueue_submit_request: "if (bq->in_flight_num > 0) return -1", placed
\* ahead of the switch on the type of the in-flight request.
SubmitBusy(w) == w.in_flight_num > 0

\* Variant: a short queue holds a Barrier back even when somebody waits.
BarrierHeld_waiting(w, req) ==
    req.type = REQ_TYPE_BARRIER /\ w.queue_size < BARRIER_THRESHOLD

\* blkqueue_submit_request: "Process barriers only if the queue is long
\* enough", unless a flush is running or a callback is waited for.
BarrierHeld(w, req) ==
    /\ w.flushing = 0 /\ w.num_waiting_for_cb = 0
    /\ req.type = REQ_TYPE_BARRIER /\ w.queue_size < BARRIER_THRESHOLD

\* Variant: the failed request is put back at the end of the list.
Reinsert_tail(l, id) == Append(l, id)

\* blkqueue_process_request_cb: QTAILQ_INSERT_HEAD(&bq->queue, req, link) and
\* QSIMPLEQ_INSERT_HEAD(&bq->sections, req, link_section)
Reinsert(l, id) == <<id>> \o l

RECURSIVE blkqueue_process_request_cb(_, _, _)
RECURSIVE blkqueue_submit_request(_)
RECURSIVE blkqueue_process_request(_)

\* blkqueue_process_request_cb(req, ret); the error handler may answer either
\* way.  Returns the set of states it can leave.
blkqueue_process_request_cb(w, id, ret) ==
    LET req == w.reqs[id]
        w1 == [w EXCEPT !.in_flight = Remove(@, id),
                        !.in_flight_num = @ - 1]
        w2 == IF ret < 0 /\ w1.error_ret # 0 - ENOSPC
              THEN [w1 EXCEPT !.error_ret = ret] ELSE w1
        done == IF ret = 0
                THEN (IF req.type = REQ_TYPE_WRITE
                      THEN [bdrv_aio_pwrite(w2, req)
                               EXCEPT !.acb = OwedDone(@, id)]
                      ELSE [w2 EXCEPT !.acb = OwedDone(@, id)])
                ELSE w2
        w3 == [done EXCEPT !.acb = CallAcbs(@, req.acbs, CbRet(done)),
                           !.num_waiting_for_cb = @ - Len(req.acbs),
                           !.reqs[id].acbs = <<>>]
    IN  IF ret < 0 /\ w.nerr >= MaxErrors THEN {}
        ELSE IF ret < 0
        THEN UNION {
            LET w4 == [blkqueue_fail_flush(w3, w3.error_ret, keep_queue)
                          EXCEPT !.nerr = @ + 1]
            IN  IF keep_queue
                THEN {[w4 EXCEPT !.queue = Reinsert(@, id),
                                 !.sections = IF req.type = REQ_TYPE_BARRIER
                                              THEN Reinsert(@, id) ELSE @,
                                 !.error_ret = 0]}
                ELSE blkqueue_process_request(
                        [blkqueue_free_request(w4, id)
                            EXCEPT !.acb = OwedLost(@, {id}),
                                   !.lastw = [c \in Ctxs |-> NoWrite]])
            : keep_queue \in error_handler(ret) }
        ELSE blkqueue_process_request(blkqueue_free_request(w3, id))

\* blkqueue_submit_request: the set of [w, ret] it can return.  bdrv_aio_pwrite
\* or bdrv_aio_flush may fail to dispatch (acb == NULL).
blkqueue_submit_request(w) ==
    IF SubmitError(w) THEN {[w |-> w, ret |-> 0 - 1]}
    ELSE IF w.queue = <<>> THEN {[w |-> w, ret |-> 0 - 1]}
    ELSE IF SubmitBusy(w) THEN {[w |-> w, ret |-> 0 - 1]}
    ELSE
    LET id == Head(w.queue)
        req == w.reqs[id]
    IN  IF BarrierHeld(w, req)
        THEN {[w |-> w, ret |-> 0 - 1]}
        ELSE
        LET w1 == [blkqueue_pop(w) EXCEPT !.in_flight = Append(@, id),
                                          !.in_flight_num = @ + 1,
                                          !.in_flight_type = req.type]
        IN  {[w |-> w1, ret |-> 0]} \cup
            {[w |-> x, ret |-> 0 - 1] :
                x \in blkqueue_process_request_cb(w1, id, 0 - EIO)}

\* blkqueue_process_request: submit until blkqueue_submit_request refuses.
blkqueue_process_request(w) ==
    UNION { IF r.ret >= 0 THEN blkqueue_process_request(r.w) ELSE {r.w}
            : r \in blkqueue_submit_request(w) }

\* #ifndef RUN_TESTS blkqueue_process_request(bq); #endif
Drive(w) == IF RUN_TESTS THEN {w} ELSE blkqueue_process_request(w)

\* ----------------------------------------------- overlap resolver: writes
\* memcpy(old, new, size): n bytes of the caller's buffer src[newpos..] into
\* the queued request's buffer at oldpos.
pwrite_handle_overlap(w, id, oldpos, src, newpos, n) ==
    [w EXCEPT !.reqs[id].buf = [k \in 1..Len(@) |->
        IF k - 1 >= oldpos /\ k - 1 < oldpos + n
        THEN src[newpos + (k - 1 - oldpos) + 1]
        ELSE @[k]]]

\* bdrv_pwrite(bs, offset, buf, size), for writethrough images
bdrv_pwrite(w, offset, src, pos, size) ==
    [w EXCEPT !.disk = [o \in Offsets |->
        IF o >= offset /\ o < offset + size
        THEN src[pos + (o - offset) + 1]
        ELSE @[o]]]

\* Variant: only a barrier of a later section takes the new write.
WriteSlots_later(w, sec0) ==
    {i \in 1..Len(w.sections) : w.reqs[w.sections[i]].section > sec0}

\* The QSIMPLEQ_FOREACH over bq->sections in blkqueue_pwrite: the positions in
\* sections of the barriers with section_req->section >= req->section.
WriteSlots(w, sec0) ==
    {i \in 1..Len(w.sections) : w.reqs[w.sections[i]].section >= sec0}

\* blkqueue_pwrite, from "Create request structure" on: link a new write of
\* buf at offset before the barrier that closes the context's section, then
\* start the queue.  No outcome when the model's heap is exhausted.
pwrite_insert(w, c, offset, buf) ==
    IF ~HasFreeId(w) THEN {}
    ELSE
    LET id == AllocId(w)
        sec0 == w.ctx[c]
        hit == WriteSlots(w, sec0)
        new(sec) == [type |-> REQ_TYPE_WRITE, offset |-> offset, buf |-> buf,
                     section |-> sec, acbs |-> <<>>]
    IN  IF hit # {}
        THEN LET k == CHOOSE i \in hit : \A j \in hit : i <= j
                 section_req == w.sections[k]
                 bsec == w.reqs[section_req].section
             IN  Drive([w EXCEPT !.reqs[id] = new(bsec),
                                 !.ctx[c] = bsec,
                                 !.queue = InsertAt(@, IndexOf(@, section_req), id),
                                 !.queue_size = @ + 1])
        ELSE Drive([w EXCEPT !.reqs[id] = new(sec0),
                             !.queue = Append(@, id),
                             !.queue_size = @ + 1])

\* Variant: the requests in flight are searched for overlaps too.
PwriteList_inflight(w) == w.in_flight \o w.queue

\* blkqueue_pwrite: the list it hands to blkqueue_check_queue_overlap,
\* &bq->queue.
PwriteList(w) == w.queue

RECURSIVE PwCheckQueueOverlap(_, _, _, _, _, _)
RECURSIVE blkqueue_pwrite(_, _, _, _, _, _)

\* blkqueue_check_queue_overlap with pwrite_handle_overlap over bq->queue, from
\* list position i down to the head.  st = [offset, pos, size]: *_offset, *_buf
\* (as a position in the caller's buffer src) and *_size.  The recursive
\* blkqueue_pwrite can relink the list under the loop: the loop goes on from
\* the current request's predecessor in the list as it then is, and ends when
\* the current request has left bq->queue.
PwCheckQueueOverlap(w, c, st, src, min_section, i) ==
    IF i <= 0
    THEN {[w |-> w, offset |-> st.offset, pos |-> st.pos, size |-> st.size,
           completed |-> FALSE]}
    ELSE
    LET id == PwriteList(w)[i]
        req == w.reqs[id]
        offset == st.offset
        size == st.size
        end == offset + size
    IN  IF req.type # REQ_TYPE_WRITE
        THEN PwCheckQueueOverlap(w, c, st, src, min_section, i - 1)
        ELSE IF BelowFloor(req, min_section)
        THEN PwCheckQueueOverlap(w, c, st, src, min_section, i - 1)
        ELSE
        LET req_end == req.offset + Len(req.buf)
            ws == IF end > req.offset /\ offset < req_end
                  THEN [w EXCEPT !.ctx[c] = MAX(@, req.section)]
                  ELSE w
        IN  IF offset >= req.offset /\ end <= req_end
            THEN {[w |-> pwrite_handle_overlap(ws, id, offset - req.offset,
                                               src, st.pos, size),
                   offset |-> offset, pos |-> st.pos, size |-> size,
                   completed |-> TRUE]}
            ELSE IF end >= req.offset /\ end <= req_end
            THEN PwCheckQueueOverlap(
                     pwrite_handle_overlap(ws, id, 0, src,
                         st.pos + (req.offset - offset), end - req.offset),
                     c, [st EXCEPT !.size = req.offset - offset],
                     src, min_section, i - 1)
            ELSE IF offset >= req.offset /\ offset < req_end
            THEN PwCheckQueueOverlap(
                     pwrite_handle_overlap(ws, id, offset - req.offset, src,
                         st.pos, req_end - offset),
                     c, [st EXCEPT !.pos = st.pos + (req_end - offset),
                                   !.offset = req_end,
                                   !.size = end - req_end],
                     src, min_section, i - 1)
            ELSE IF req.offset >= offset /\ req_end <= end
            THEN
                LET w1 == pwrite_handle_overlap(ws, id, 0, src,
                              st.pos + (req.offset - offset),
                              req_end - req.offset)
                IN  UNION { PwCheckQueueOverlap(w2, c,
                                [st EXCEPT !.size = req.offset - offset],
                                src, min_section, IndexOf(PwriteList(w2), id) - 1)
                            : w2 \in blkqueue_pwrite(w1, c, req_end, src,
                                         st.pos + (req_end - offset),
                                         end - req_end) }
            ELSE PwCheckQueueOverlap(ws, c, st, src, min_section, i - 1)

\* blkqueue_pwrite(context c, offset, buf = src + pos, size)
blkqueue_pwrite(w, c, offset, src, pos, size) ==
    IF open_flags \cap WRITEBACK_MODES = {}
    THEN {bdrv_pwrite(w, offset, src, pos, size)}
    ELSE UNION {
        IF s.completed THEN {s.w}
        ELSE pwrite_insert(s.w, c, s.offset,
                           SubSeq(src, s.pos + 1, s.pos + s.size))
        : s \in PwCheckQueueOverlap(w, c,
                    [offset |-> offset, pos |-> pos, size |-> size],
                    src, w.ctx[c], Len(PwriteList(w))) }

\* ------------------------------------------------------------- barriers
\* Variant: only a barrier of a later section is merged with.
MergeSlots_later(w, sec0, a) ==
    {i \in 1..Len(w.sections) :
        /\ w.reqs[w.sections[i]].section > sec0
        /\ ~(a # 0 /\ IndexOf(w.queue, w.sections[i]) < Len(w.queue))}

\* Variant: an acb is attached to any barrier, whatever follows it.
MergeSlots_any(w, sec0, a) ==
    {i \in 1..Len(w.sections) : w.reqs[w.sections[i]].section >= sec0}

\* The QSIMPLEQ_FOREACH over bq->sections in insert_barrier: the positions in
\* sections of the barriers the new one may merge with.  With an acb, a
\* barrier that has a QTAILQ_NEXT in bq->queue is passed over.
MergeSlots(w, sec0, a) ==
    {i \in 1..Len(w.sections) :
        /\ w.reqs[w.sections[i]].section >= sec0
        /\ ~(a # 0 /\ IndexOf(w.queue, w.sections[i]) < Len(w.queue))}

\* Variant: a merge leaves the context in the section of the Barrier.
MergedSection_same(sec) == sec

\* insert_barrier, on a merge: context->section = section_req->section + 1
MergedSection(sec) == sec + 1

\* insert_barrier(context c, acb); a = 0 stands for acb == NULL.
insert_barrier(w, c, a) ==
    LET sec0 == w.ctx[c]
        pre == ListSet(w.queue) \cup ListSet(w.in_flight)
        hit == MergeSlots(w, sec0, a)
        attach(x, id) ==
            IF a = 0 THEN x
            ELSE [x EXCEPT !.reqs[id].acbs = <<a>> \o @,
                           !.num_waiting_for_cb = @ + 1,
                           !.acb[a] = [st |-> "attached", ncalls |-> 0,
                                       ret |-> 0,
                                       owed |-> IF ghost = "acb" THEN pre ELSE {},
                                       waited |-> ghost = "acb" /\
                                                  Cardinality(pre) >= 2]]
    IN  IF hit # {}
        THEN LET k == CHOOSE i \in hit : \A j \in hit : i <= j
                 section_req == w.sections[k]
             IN  Drive(attach([w EXCEPT !.ctx[c] =
                                   MergedSection(w.reqs[section_req].section)],
                              section_req))
        ELSE IF ~HasFreeId(w) THEN {}
        ELSE LET id == AllocId(w)
             IN  Drive(attach(
                     [w EXCEPT !.reqs[id] = [type |-> REQ_TYPE_BARRIER,
                                   offset |-> 0, buf |-> <<>>,
                                   section |-> sec0, acbs |-> <<>>],
                               !.queue = Append(@, id),
                               !.sections = Append(@, id),
                               !.queue_size = @ + 1,
                               !.ctx[c] = @ + 1],
                     id))

\* blkqueue_barrier
blkqueue_barrier(w, c) ==
    IF open_flags \cap WRITEBACK_MODES = {} THEN {w}
    ELSE insert_barrier(w, c, 0)

\* bdrv_aio_flush(bs, cb, opaque) called for the caller: the acb returned is
\* the backend's, which calls cb when its flush is done.
bdrv_aio_flush(w, a) == [w EXCEPT !.acb[a] = [NoAcb EXCEPT !.st = "backend"]]

\* blkqueue_aio_flush: the backend's flush for writethrough images, else
\* qemu_aio_get + insert_barrier
blkqueue_aio_flush(w, c, a) ==
    IF open_flags \cap WRITEBACK_MODES = {} THEN {bdrv_aio_flush(w, a)}
    ELSE insert_barrier(w, c, a)

\* Variant: the cancelled acb stays on its request's list.
blkqueue_aio_cancel_linked(w, a) ==
    [w EXCEPT !.acb[a] = IF ghost # "acb" THEN NoAcb
                         ELSE [@ EXCEPT !.st = "cancelled"]]

\* blkqueue_aio_cancel: unlink the acb from its request's list and free it.
blkqueue_aio_cancel(w, a) ==
    [w EXCEPT !.reqs = [i \in DOMAIN w.reqs |->
                 IF w.reqs[i] # NoReq
                 THEN [w.reqs[i] EXCEPT !.acbs = SelectSeq(@, LAMBDA x : x # a)]
                 ELSE w.reqs[i]],
              !.acb[a] = IF ghost # "acb" THEN NoAcb
                         ELSE [@ EXCEPT !.st = "cancelled"]]

\* ---------------------------------------------------------------- flush
\* Variant: only a latched error_ret is returned.
FlushRes_latched(w) == IF w.error_ret < 0 THEN w.error_ret ELSE 0

\* blkqueue_flush: res, as set by "if (bq->error_ret < 0) res = bq->error_ret;
\* else if (bq->flushing < 0) res = bq->flushing" (res is 0 before).
FlushRes(w) ==
    IF w.error_ret < 0 THEN w.error_ret
    ELSE IF w.flushing < 0 THEN w.flushing
    ELSE 0

\* The end of blkqueue_flush, from "if (bq->error_ret < 0)" on.  The caller
\* either returns res (pc "ret") or waits in qemu_aio_flush (pc "drain2").
FlushTail(w) ==
    IF w.error_ret < 0
    THEN IF w.in_flight = <<>>
         THEN [w |-> [w EXCEPT !.flushing = 0, !.error_ret = 0],
               pc |-> "ret", res |-> FlushRes(w)]
         ELSE [w |-> w, pc |-> "drain2", res |-> FlushRes(w)]
    ELSE [w |-> [w EXCEPT !.flushing = 0, !.error_ret = 0],
          pc |-> "ret", res |-> FlushRes(w)]

RECURSIVE FlushLoop(_)
\* The while loop of blkqueue_flush from its condition on, up to the point
\* where the caller next waits for a completion (pc "wait") or leaves the loop.
\* qemu_aio_wait returns at once when no request is in flight; "spin" is a
\* loop that then makes no progress.
FlushLoop(w) ==
    IF w.flushing > 0 /\ (w.in_flight_num # 0 \/ w.queue # <<>>)
    THEN UNION {
            IF w2.in_flight # <<>>
            THEN {[w |-> w2, pc |-> "wait", res |-> 0]}
            ELSE IF w2 = w THEN {[w |-> w2, pc |-> "spin", res |-> 0]}
            ELSE FlushLoop(w2)
            : w2 \in blkqueue_process_request(w) }
    ELSE {FlushTail(w)}

\* blkqueue_flush from its entry to its first wait.
FlushEnter(w) ==
    IF w.error_ret = 0
    THEN FlushLoop([w EXCEPT !.flushing = 1])
    ELSE IF w.in_flight = <<>>
    THEN FlushLoop([w EXCEPT !.flushing = w.error_ret])
    ELSE {[w |-> [w EXCEPT !.flushing = w.error_ret], pc |-> "drain1", res |-> 0]}

\* The caller of blkqueue_flush after a completion callback has run.
FlushResume(w, pc, res) ==
    IF pc = "wait" THEN FlushLoop(w)
    ELSE IF pc = "drain1"
    THEN (IF w.in_flight = <<>> THEN FlushLoop(w)
          ELSE {[w |-> w, pc |-> pc, res |-> res]})
    ELSE IF pc = "drain2"
    THEN (IF w.in_flight = <<>>
          THEN {[w |-> [w EXCEPT !.flushing = 0, !.error_ret = 0],
                 pc |-> "ret", res |-> res]}
          ELSE {[w |-> w, pc |-> pc, res |-> res]})
    ELSE {[w |-> w, pc |-> pc, res |-> res]}

\* blkqueue_destroy after its blkqueue_flush(bq) has returned: TRUE when the
\* four assertions pass.
blkqueue_destroy(w) ==
    /\ w.num_waiting_for_cb = 0
    /\ w.in_flight = <<>>
    /\ w.queue = <<>>
    /\ w.sections = <<>>

\* -------------------------------------------------- qcow2 table cache
(***************************************************************************)
(* The table cache of block/qcow2.h (qcow2_cache_* functions).  The cache  *)
(* functions run in coroutines: a coroutine runs without interruption      *)
(* until it starts backend I/O (bdrv_pread, bdrv_pwrite, bdrv_flush) or    *)
(* waits on a CoQueue, and is resumed later.  Each coroutine is a stack of *)
(* frames, one per C function call in progress; CoStep runs the code of    *)
(* the innermost frame up to its next call, return or yield.  A table      *)
(* pointer is the index of its entry, as every entry owns one buffer.      *)
(***************************************************************************)
EINPROGRESS == 115

Caches == 1..NumCaches
Cos == 1..NumCo
TabOffs == 1..NumTabs

NewEntry ==
    [offset |-> 0, cache_hits |-> 0, ref |-> 0, dirty |-> FALSE,
     keep_dirty |-> FALSE, read_status |-> 0, get_queue |-> <<>>]

qcow2_cache_create(num_tables, writethrough) ==
    [entries |-> [i \in 1..num_tables |-> NewEntry],
     depends |-> 0,
     size |-> num_tables,
     depends_on_flush |-> FALSE,
     writethrough |-> writethrough,
     alloc_queue |-> <<>>]

NewCo == [st |-> "idle", stack |-> <<>>, held |-> <<>>,
          res |-> [fn |-> "none", ret |-> 0, net |-> 0]]

\* What the model remembers of the past: backend failures so far, the last
\* writeback that returned, the tables of its dependency that each cache
\* still has to see written before its own, and the last table write issued.
NewHist ==
    [nfail |-> 0,
     wb |-> [c |-> 0, i |-> 0, redirtied |-> FALSE, ret |-> 0,
             was_dirty |-> FALSE, dirty |-> FALSE],
     owes |-> [c \in Caches |-> [d |-> 0, ents |-> {}]],
     wr |-> [c |-> 0, i |-> 0, owed |-> {}]]

Frame(fn, c, i) ==
    [fn |-> fn, pc |-> "start", c |-> c, i |-> i, off |-> 0, d |-> 0,
     rd |-> FALSE, ret |-> 0, result |-> 0, net |-> 0,
     redirtied |-> FALSE, covers |-> {}]

Top(cw, p) == cw.co[p].stack[Len(cw.co[p].stack)]

WithTop(cw, p, f) ==
    [cw EXCEPT !.co[p].stack = [@ EXCEPT ![Len(@)] = f]]

\* A C call: the caller continues at f (its pc names the statement after
\* the call) once the callee g has returned.
Call(cw, p, f, g) ==
    [cw EXCEPT !.co[p].stack = Append([@ EXCEPT ![Len(@)] = f], g)]

\* A C return: the value lands in the caller's ret; the return of the
\* outermost function ends the coroutine's operation.
Return(cw, p, v) ==
    LET f == Top(cw, p)
        st == cw.co[p].stack
        rest == SubSeq(st, 1, Len(st) - 1)
    IN  IF rest = <<>>
        THEN [cw EXCEPT !.co[p].stack = <<>>,
                        !.co[p].st = "idle",
                        !.co[p].res = [fn |-> f.fn, ret |-> v, net |-> f.net]]
        ELSE [cw EXCEPT !.co[p].stack =
                            [rest EXCEPT ![Len(rest)].ret = v]]

\* Backend I/O and qemu_co_queue_wait leave the coroutine.
Yield(cw, p, st) == [cw EXCEPT !.co[p].st = st]

\* while (qemu_co_queue_next(&queue)): every waiter becomes runnable.
WakeAll(cw, waiters) ==
    [cw EXCEPT !.co = [q \in Cos |->
        IF InList(waiters, q) THEN [cw.co[q] EXCEPT !.st = "ready"]
        ELSE cw.co[q]]]

EntryOf(cw, c, i) == cw.cache[c].entries[i]

SetEntry(cw, c, i, e) == [cw EXCEPT !.cache[c].entries[i] = e]

\* The index to replace (0 for -EBUSY) and the entries after the scan, which
\* halves the hit count of every unreferenced entry.
qcow2_cache_find_entry_to_replace(c) ==
    LET free == {i \in 1..c.size : c.entries[i].ref = 0}
        lowest == {i \in free :
                     \A j \in free : c.entries[i].cache_hits <= c.entries[j].cache_hits}
        min_index == IF free = {} THEN 0
                     ELSE CHOOSE i \in lowest : \A j \in lowest : i <= j
    IN  [i |-> min_index,
         entries |-> [i \in 1..c.size |->
                         IF i \in free
                         THEN [c.entries[i] EXCEPT !.cache_hits = @ \div 2]
                         ELSE c.entries[i]]]

qcow2_cache_flush_dependency(cw, p) ==
    LET f == Top(cw, p)
        c == cw.cache[f.c]
    IN  CASE f.pc = "start" ->
                Call(cw, p, [f EXCEPT !.pc = "flushed"],
                     Frame("flush", c.depends, 1))
          [] f.pc = "flushed" ->
                IF f.ret < 0
                THEN Return(cw, p, f.ret)
                ELSE Return([cw EXCEPT !.cache[f.c].depends = 0,
                                       !.cache[f.c].depends_on_flush = FALSE],
                            p, 0)

\* The write of entry i is issued: keep_dirty is reset and bdrv_pwrite runs.
IssueWrite(cw, p, f) ==
    LET w1 == [cw EXCEPT !.cache[f.c].entries[f.i].keep_dirty = FALSE,
                         !.hist.wr = IF ghost # "dep" THEN @
                                     ELSE [c |-> f.c, i |-> f.i,
                                           owed |-> cw.hist.owes[f.c].ents]]
    IN  Yield(WithTop(w1, p, [f EXCEPT !.pc = "written", !.redirtied = FALSE,
                                       !.covers = IF ghost # "dep" THEN {}
                                                  ELSE Caches]),
              p, "io")

\* The write of frame f is over: if it succeeded, the caches that waited
\* for this table of their dependency wait for it no longer.
Paid(owes, f) ==
    [c2 \in Caches |->
        IF f.ret >= 0 /\ c2 \in f.covers /\ owes[c2].d = f.c
        THEN [owes[c2] EXCEPT !.ents = @ \ {f.i}]
        ELSE owes[c2]]

qcow2_cache_entry_flush(cw, p) ==
    LET f == Top(cw, p)
        c == cw.cache[f.c]
        e == c.entries[f.i]
    IN  CASE f.pc = "start" ->
                IF ~e.dirty \/ e.offset = 0 THEN Return(cw, p, 0)
                ELSE IF c.depends # 0
                THEN Call(cw, p, [f EXCEPT !.pc = "check"],
                          Frame("flush_dependency", f.c, 0))
                ELSE IF c.depends_on_flush
                THEN Yield(WithTop(cw, p, [f EXCEPT !.pc = "synced"]), p, "io")
                ELSE IssueWrite(cw, p, f)
          [] f.pc = "synced" ->
                IF f.ret >= 0
                THEN IssueWrite([cw EXCEPT !.cache[f.c].depends_on_flush = FALSE],
                                p, f)
                ELSE Return(cw, p, f.ret)
          [] f.pc = "check" ->
                IF f.ret < 0 THEN Return(cw, p, f.ret)
                ELSE IssueWrite(cw, p, f)
          [] f.pc = "written" ->
                LET after == IF f.ret < 0 THEN e.dirty ELSE e.keep_dirty
                    w1 == [cw EXCEPT !.cache[f.c].entries[f.i].dirty = after,
                                     !.hist.wb =
                                         IF ghost # "wb" THEN @
                                         ELSE [c |-> f.c, i |-> f.i,
                                               redirtied |-> f.redirtied,
                                               ret |-> f.ret,
                                               was_dirty |-> e.dirty,
                                               dirty |-> after],
                                     !.hist.owes = Paid(@, f)]
                IN  Return(w1, p, IF f.ret < 0 THEN f.ret ELSE 0)

\* f.i is the loop index, f.result the local result.
qcow2_cache_flush(cw, p) ==
    LET f == Top(cw, p)
        c == cw.cache[f.c]
    IN  CASE f.pc = "start" ->
                WithTop(cw, p, [f EXCEPT !.pc = "loop", !.result = 0])
          [] f.pc = "loop" ->
                IF f.i <= c.size
                THEN Call(cw, p, [f EXCEPT !.pc = "flushed"],
                          Frame("entry_flush", f.c, f.i))
                ELSE IF f.result = 0
                THEN Yield(WithTop(cw, p, [f EXCEPT !.pc = "synced"]), p, "io")
                ELSE Return(cw, p, f.result)
          [] f.pc = "flushed" ->
                WithTop(cw, p, [f EXCEPT
                    !.pc = "loop",
                    !.i = @ + 1,
                    !.result = IF f.ret < 0 /\ f.result # -ENOSPC
                               THEN f.ret ELSE f.result])
          [] f.pc = "synced" ->
                IF f.ret < 0 THEN Return(cw, p, f.ret)
                ELSE Return(cw, p, f.result)

\* c->depends = dependency.  From here on the tables of dependency that are
\* dirty now have to be written before a table of c.  A write of such a
\* table that is in progress counts, unless the table was changed after
\* the write was issued.
Establish(cw, c, dependency) ==
    LET d == cw.cache[dependency]
        dirty_now == {j \in 1..d.size :
                        d.entries[j].dirty /\ d.entries[j].offset # 0}
        old == cw.hist.owes[c]
        stale(g) == IF g.fn = "entry_flush" /\ g.c = dependency
                       /\ g.pc = "written" /\ g.redirtied
                    THEN [g EXCEPT !.covers = @ \ {c}]
                    ELSE g
    IN  [cw EXCEPT
            !.cache[c].depends = dependency,
            !.hist.owes[c] =
                IF ghost # "dep" THEN old
                ELSE [d |-> IF dirty_now = {} /\ old.ents = {} THEN 0
                            ELSE dependency,
                      ents |-> IF old.d = dependency
                               THEN old.ents \cup dirty_now ELSE dirty_now],
            !.co = [q \in Cos |->
                      [cw.co[q] EXCEPT !.stack =
                          [k \in 1..Len(cw.co[q].stack) |->
                              stale(cw.co[q].stack[k])]]]]

\* f.c is the cache, f.d the dependency.
qcow2_cache_set_dependency(cw, p) ==
    LET f == Top(cw, p)
        c == cw.cache[f.c]
        second == IF c.depends # 0 /\ c.depends # f.d
                  THEN Call(cw, p, [f EXCEPT !.pc = "flushed2"],
                            Frame("flush_dependency", f.c, 0))
                  ELSE Return(Establish(cw, f.c, f.d), p, 0)
    IN  CASE f.pc = "start" ->
                IF cw.cache[f.d].depends # 0
                THEN Call(cw, p, [f EXCEPT !.pc = "flushed1"],
                          Frame("flush_dependency", f.d, 0))
                ELSE second
          [] f.pc = "flushed1" ->
                IF f.ret < 0 THEN Return(cw, p, f.ret) ELSE second
          [] f.pc = "flushed2" ->
                IF f.ret < 0 THEN Return(cw, p, f.ret)
                ELSE Return(Establish(cw, f.c, f.d), p, 0)

\* f.off is the offset asked for, f.rd is read_from_disk, f.i the entry
\* once chosen, f.net the references this call has taken and not returned.
qcow2_cache_do_get(cw, p) ==
    LET f == Top(cw, p)
        c == cw.cache[f.c]
        hits == {i \in 1..c.size : c.entries[i].offset = f.off}
        loaded(w) ==
            LET e == EntryOf(w, f.c, f.i)
            IN  WithTop(WakeAll(SetEntry(w, f.c, f.i,
                                    [e EXCEPT !.cache_hits = 32,
                                              !.offset = f.off,
                                              !.read_status = 0,
                                              !.get_queue = <<>>]),
                                e.get_queue),
                        p, [f EXCEPT !.pc = "found"])
    IN  CASE f.pc = "start" ->
                IF hits # {}
                THEN LET i == CHOOSE i \in hits : \A j \in hits : i <= j
                     IN  WithTop([cw EXCEPT !.cache[f.c].entries[i].ref = @ + 1],
                                 p, [f EXCEPT !.pc = "found", !.i = i,
                                              !.net = @ + 1])
                ELSE LET r == qcow2_cache_find_entry_to_replace(c)
                     IN  IF r.i = 0
                         THEN Yield([cw EXCEPT !.cache[f.c].alloc_queue =
                                                    Append(@, p)],
                                    p, "wait")
                         ELSE Call([cw EXCEPT !.cache[f.c].entries =
                                        [r.entries EXCEPT ![r.i].ref = @ + 1]],
                                   p, [f EXCEPT !.pc = "flushed", !.i = r.i,
                                                !.net = @ + 1],
                                   Frame("entry_flush", f.c, r.i))
          [] f.pc = "flushed" ->
                LET e == c.entries[f.i]
                IN  IF f.ret < 0
                    THEN Return(WithTop([cw EXCEPT !.cache[f.c].entries[f.i].ref = @ - 1],
                                        p, [f EXCEPT !.net = @ - 1]),
                                p, f.ret)
                    ELSE IF e.ref # 1 \/ e.dirty
                    THEN WithTop([cw EXCEPT !.cache[f.c].entries[f.i].ref = @ - 1],
                                 p, [f EXCEPT !.pc = "start", !.net = @ - 1])
                    ELSE LET w1 == SetEntry(cw, f.c, f.i,
                                       [e EXCEPT !.read_status = -EINPROGRESS,
                                                 !.offset = 0])
                         IN  IF f.rd
                             THEN Yield(WithTop(w1, p, [f EXCEPT !.pc = "read"]),
                                        p, "io")
                             ELSE loaded(w1)
          [] f.pc = "read" ->
                LET e == c.entries[f.i]
                IN  IF f.ret < 0
                    THEN Return(WakeAll(SetEntry(cw, f.c, f.i,
                                            [e EXCEPT !.read_status = f.ret,
                                                      !.get_queue = <<>>]),
                                        e.get_queue),
                                p, f.ret)
                    ELSE loaded(cw)
          [] f.pc = "found" ->
                LET e == c.entries[f.i]
                IN  IF e.read_status = -EINPROGRESS
                    THEN Yield([cw EXCEPT !.cache[f.c].entries[f.i].get_queue =
                                                Append(@, p)],
                               p, "wait")
                    ELSE IF e.read_status < 0
                    THEN Return(WithTop([cw EXCEPT !.cache[f.c].entries[f.i].ref = @ - 1],
                                        p, [f EXCEPT !.net = @ - 1]),
                                p, e.read_status)
                    ELSE Return([cw EXCEPT !.cache[f.c].entries[f.i].cache_hits = @ + 1,
                                           !.co[p].held = Append(@, <<f.c, f.i>>)],
                                p, 0)

\* f.i is the entry of the table handed back.
qcow2_cache_put(cw, p) ==
    LET f == Top(cw, p)
        c == cw.cache[f.c]
        release ==
            LET e == c.entries[f.i]
                w1 == [cw EXCEPT !.cache[f.c].entries[f.i].ref = @ - 1]
            IN  IF e.ref - 1 = 0 /\ c.alloc_queue # <<>>
                THEN Return([w1 EXCEPT
                                !.cache[f.c].alloc_queue = Tail(@),
                                !.co[Head(c.alloc_queue)].st = "ready"],
                            p, 0)
                ELSE Return(w1, p, 0)
    IN  CASE f.pc = "start" ->
                IF c.writethrough
                THEN Call(cw, p, [f EXCEPT !.pc = "release"],
                          Frame("entry_flush", f.c, f.i))
                ELSE release
          [] f.pc = "release" -> release

\* dirty and keep_dirty are set; a writeback of the table that is waiting
\* for its bdrv_pwrite has been overtaken by the change.
qcow2_cache_entry_mark_dirty(cw, c, i) ==
    LET mark(g) == IF g.fn = "entry_flush" /\ g.c = c /\ g.i = i
                      /\ g.pc = "written" /\ ghost # "none"
                   THEN [g EXCEPT !.redirtied = TRUE] ELSE g
    IN  [cw EXCEPT
            !.cache[c].entries[i].dirty = TRUE,
            !.cache[c].entries[i].keep_dirty = TRUE,
            !.co = [q \in Cos |->
                      [cw.co[q] EXCEPT !.stack =
                          [k \in 1..Len(cw.co[q].stack) |->
                              mark(cw.co[q].stack[k])]]]]

\* One basic block of the innermost function of coroutine p.
CoStep(cw, p) ==
    LET fn == Top(cw, p).fn
    IN  CASE fn = "do_get" -> qcow2_cache_do_get(cw, p)
          [] fn = "put" -> qcow2_cache_put(cw, p)
          [] fn = "entry_flush" -> qcow2_cache_entry_flush(cw, p)
          [] fn = "flush" -> qcow2_cache_flush(cw, p)
          [] fn = "flush_dependency" -> qcow2_cache_flush_dependency(cw, p)
          [] fn = "set_dependency" -> qcow2_cache_set_dependency(cw, p)

\* Coroutine p runs until it yields or its operation returns.
RECURSIVE CoRun(_, _)
CoRun(cw, p) ==
    IF cw.co[p].st # "run" THEN cw ELSE CoRun(CoStep(cw, p), p)

\* ---------------------------------------------------------------- state
\* blkqueue_create and blkqueue_init_context
InitState ==
    /\ queue = <<>>
    /\ in_flight = <<>>
    /\ sections = <<>>
    /\ queue_size = 0
    /\ flushing = 0
    /\ num_waiting_for_cb = 0
    /\ error_ret = 0
    /\ in_flight_num = 0
    /\ in_flight_type = REQ_TYPE_WRITE
    /\ ctx = [c \in Ctxs |-> 0]
    /\ disk = [o \in Offsets |-> 0]
    /\ acb = [a \in AcbIds |-> NoAcb]
    /\ flush_pc = "idle"
    /\ flush_res = 0
    /\ lastw = [c \in Ctxs |-> NoWrite]
    /\ nerr = 0
    /\ co = [p \in Cos |-> NewCo]
    /\ chist = NewHist

\* ... in the build that drives the queue (RUN_TESTS not defined); the
\* model's heap has room for MaxReqs requests.
InitFields ==
    /\ InitState
    /\ reqs = [i \in Ids |-> NoReq]
    /\ RUN_TESTS = FALSE
    /\ cache = [c \in Caches |-> qcow2_cache_create(CacheSize, FALSE)]

\* ... on an image opened writeback
InitQueue == InitFields /\ open_flags = {"BDRV_O_CACHE_WB"}

Init == InitQueue /\ ghost = "none" /\ werror \in {"stop", "report"}

Fixed == UNCHANGED <<open_flags, RUN_TESTS, ghost, werror, cache, co, chist>>

Overlaps(lw, off, size) ==
    lw.off >= 0 /\ lw.off < off + size /\ off < lw.off + Len(lw.buf)

\* blkqueue_pwrite(&ctx[c], off, buf, size) with buf filled with pat
Pwrite(c, off, size, pat) ==
    /\ flush_pc = "idle"
    /\ LET buf == [k \in 1..size |-> pat]
           w0 == [World EXCEPT !.lastw = [d \in Ctxs |->
                     IF ghost # "rw" THEN NoWrite
                     ELSE IF d = c
                     THEN [off |-> off, buf |-> buf]
                     ELSE IF Overlaps(lastw[d], off, size) THEN NoWrite
                     ELSE lastw[d]]]
       IN  \E w2 \in blkqueue_pwrite(w0, c, off, buf, 0, size) : SetWorld(w2)
    /\ UNCHANGED <<flush_pc, flush_res>>
    /\ Fixed

\* blkqueue_pread(&ctx[c], off, buf, size)
Pread(c, off, size) ==
    /\ flush_pc = "idle"
    /\ ctx' = [ctx EXCEPT ![c] = PreadSection(World, c, off, size)]
    /\ UNCHANGED <<reqs, queue, in_flight, sections, queue_size, flushing,
                   num_waiting_for_cb, error_ret, in_flight_num,
                   in_flight_type, disk, acb, flush_pc, flush_res, nerr, lastw>>
    /\ Fixed

\* blkqueue_barrier(&ctx[c])
Barrier(c) ==
    /\ flush_pc = "idle"
    /\ ctx[c] < MaxSection
    /\ \E w2 \in blkqueue_barrier(World, c) : SetWorld(w2)
    /\ UNCHANGED <<flush_pc, flush_res>>
    /\ Fixed

\* blkqueue_aio_flush(&ctx[c], cb, opaque); the new acb is a
AioFlush(c, a) ==
    /\ flush_pc = "idle"
    /\ ctx[c] < MaxSection
    /\ acb[a].st = "unused"
    /\ \A b \in 1..(a - 1) : acb[b].st # "unused"
    /\ \E w2 \in blkqueue_aio_flush(World, c, a) : SetWorld(w2)
    /\ UNCHANGED <<flush_pc, flush_res>>
    /\ Fixed

\* bdrv_aio_cancel on an acb whose callback has not run
AioCancel(a) ==
    /\ flush_pc = "idle"
    /\ acb[a].st = "attached"
    /\ SetWorld(blkqueue_aio_cancel(World, a))
    /\ UNCHANGED <<flush_pc, flush_res>>
    /\ Fixed

\* blkqueue_init_context(&ctx[c], bq): the client opens a new context
InitContext(c) ==
    /\ flush_pc = "idle"
    /\ ctx[c] # 0
    /\ ctx' = [ctx EXCEPT ![c] = 0]
    /\ lastw' = [lastw EXCEPT ![c] = NoWrite]
    /\ UNCHANGED <<reqs, queue, in_flight, sections, queue_size, flushing,
                   num_waiting_for_cb, error_ret, in_flight_num,
                   in_flight_type, disk, acb, flush_pc, flush_res, nerr>>
    /\ Fixed

BackendRets == {0, 0 - EIO}

\* The backend completes the request in flight with ret and calls
\* blkqueue_process_request_cb; a caller waiting inside blkqueue_flush goes on.
Complete(ret) ==
    /\ flush_pc \notin {"ret", "spin"}
    /\ \E id \in ListSet(in_flight) :
       \E w2 \in blkqueue_process_request_cb(World, id, ret) :
         \E f \in FlushResume(w2, flush_pc, flush_res) :
            /\ SetWorld(f.w)
            /\ flush_pc' = f.pc
            /\ flush_res' = f.res
    /\ Fixed

\* blkqueue_flush(bq) is called
FlushStart ==
    /\ flush_pc = "idle"
    /\ \E f \in FlushEnter(World) :
            /\ SetWorld(f.w)
            /\ flush_pc' = f.pc
            /\ flush_res' = f.res
    /\ Fixed

\* blkqueue_flush returns flush_res
FlushReturn ==
    /\ flush_pc = "ret"
    /\ flush_pc' = "idle"
    /\ flush_res' = 0
    /\ lastw' = [c \in Ctxs |-> NoWrite]
    /\ UNCHANGED <<reqs, queue, in_flight, sections, queue_size, flushing,
                   num_waiting_for_cb, error_ret, in_flight_num,
                   in_flight_type, ctx, disk, acb, nerr>>
    /\ Fixed

\* Producers of the control specification write the pattern the device
\* already holds (the tests' prefill), so that the device never changes.
Prefill == 0

Next ==
    \/ \E c \in Ctxs, off \in Offsets :
         \E size \in 1..(DiskSize - off) : Pwrite(c, off, size, Prefill)
    \/ \E c \in Ctxs, off \in Offsets :
         \E size \in 1..(DiskSize - off) : Pread(c, off, size)
    \/ \E c \in Ctxs : Barrier(c)
    \/ \E c \in Ctxs : AioFlush(c, 1)
    \/ \E c \in Ctxs : InitContext(c)
    \/ \E ret \in BackendRets : Complete(ret)

Spec == Init /\ [][Next]_vars

\* Waiters: several acbs and their cancellation, over one-byte writes.
NextAcb ==
    \/ \E c \in Ctxs : Pwrite(c, 0, 1, Prefill)
    \/ \E c \in Ctxs : Barrier(c)
    \/ \E c \in Ctxs, a \in AcbIds : AioFlush(c, a)
    \/ \E a \in AcbIds : AioCancel(a)
    \/ \E ret \in BackendRets : Complete(ret)

InitAcb == InitQueue /\ ghost = "acb" /\ werror \in {"stop", "report"}

SpecAcb == InitAcb /\ [][NextAcb]_vars

\* Data: the payloads differ, the device changes, and blkqueue_flush runs.
PatOf(c) == ((c - 1) % NumPat) + 1

InitRW == InitQueue /\ ghost = "rw" /\ werror = "stop"

NextRW ==
    \/ \E c \in Ctxs : Pwrite(c, 0, 1, PatOf(c))
    \/ \E c \in Ctxs : Barrier(c)
    \/ \E c \in Ctxs : AioFlush(c, 1)
    \/ \E c \in Ctxs : InitContext(c)
    \/ \E ret \in BackendRets : Complete(ret)
    \/ FlushStart
    \/ FlushReturn

SpecRW == InitRW /\ [][NextRW]_vars

\* The backend completes every request it was given.
CompleteAny == \E ret \in BackendRets : Complete(ret)

NextLive ==
    \/ \E c \in Ctxs : Pwrite(c, 0, 1, Prefill)
    \/ \E c \in Ctxs : AioFlush(c, 1)
    \/ CompleteAny

SpecLive == Init /\ [][NextLive]_vars /\ WF_vars(CompleteAny)

\* Errors and blkqueue_flush: both handler policies, a waiter that may be
\* cancelled, and the caller of blkqueue_flush (or of blkqueue_destroy).
NextFlush ==
    \/ \E c \in Ctxs : Pwrite(c, 0, 1, Prefill)
    \/ \E c \in Ctxs : Barrier(c)
    \/ \E c \in Ctxs : AioFlush(c, 1)
    \/ AioCancel(1)
    \/ \E ret \in BackendRets : Complete(ret)
    \/ FlushStart
    \/ FlushReturn

SpecFlush == Init /\ [][NextFlush]_vars

\* The backend finishes a flush that blkqueue_aio_flush handed to it directly
\* and calls the caller's cb.
AioFlushDone(a) ==
    /\ acb[a].st = "backend"
    /\ acb' = [acb EXCEPT ![a] = IF ghost # "acb" THEN NoAcb
                                  ELSE [@ EXCEPT !.st = "called", !.ncalls = 1]]
    /\ UNCHANGED <<reqs, queue, in_flight, sections, queue_size, flushing,
                   num_waiting_for_cb, error_ret, in_flight_num,
                   in_flight_type, ctx, disk, flush_pc, flush_res, nerr, lastw>>
    /\ Fixed

\* A writethrough image: bs->open_flags holds neither writeback mode.
InitWT ==
    InitFields /\ open_flags = {"BDRV_O_RDWR"} /\ ghost = "acb"
               /\ werror = "report"

NextWT ==
    \/ \E c \in Ctxs, off \in Offsets, pat \in Pats :
         \E size \in 1..(DiskSize - off) : Pwrite(c, off, size, pat)
    \/ \E c \in Ctxs : Barrier(c)
    \/ \E c \in Ctxs, a \in AcbIds : AioFlush(c, a)
    \/ \E a \in AcbIds : AioFlushDone(a)
    \/ FlushStart
    \/ FlushReturn

SpecWT == InitWT /\ [][NextWT]_vars

\* ------------------------------------------------------------ properties
PendingRecs == [i \in 1..Len(queue) |-> reqs[queue[i]]]
SectionRecs == [i \in 1..Len(sections) |-> reqs[sections[i]]]
SetMin(S) == CHOOSE x \in S : \A y \in S : x <= y
IsBarrier(r) == r.type = REQ_TYPE_BARRIER
IsWrite(r) == r.type = REQ_TYPE_WRITE
Shape(r) == [type |-> r.type, offset |-> r.offset, size |-> Len(r.buf),
             section |-> r.section]
Shapes(l) == [i \in 1..Len(l) |-> Shape(l[i])]
NewBarrier(sec) == [type |-> REQ_TYPE_BARRIER, offset |-> 0, buf |-> <<>>,
                    section |-> sec, acbs |-> <<>>]
NumWrites == Cardinality({i \in Ids : reqs[i] # NoReq /\ IsWrite(reqs[i])})
HasAcb(r, a) == \E k \in 1..Len(r.acbs) : r.acbs[k] = a

\* C1: a pread by the context that issued the latest pwrite of a range, with
\* no overlapping pwrite since, returns exactly the bytes of that pwrite.
C1_ReadYourWrites ==
    \A c \in Ctxs :
        (flush_pc = "idle" /\ lastw[c] # NoWrite)
        => PreadData(World, c, lastw[c].off, Len(lastw[c].buf)) = lastw[c].buf

\* C2: when a Barrier leaves the head of pending for the backend, no Write of
\* a lower section is queued behind it: such a Write has completed before.
C2_WriteBeforeBarrier ==
    [][(/\ in_flight = <<>>
        /\ queue # <<>>
        /\ IsBarrier(reqs[Head(queue)])
        /\ in_flight' # <<>>
        /\ Shape(reqs'[Head(in_flight')]) = Shape(reqs[Head(queue)]))
       => \A i \in 2..Len(queue) :
            IsWrite(reqs[queue[i]])
            => reqs[queue[i]].section >= reqs[Head(queue)].section]_vars

\* C3: in_flight never holds a Barrier together with any other request.
C3_NoWriteCrossesBarrier ==
    \A i \in 1..Len(in_flight) :
        IsBarrier(reqs[in_flight[i]]) => Len(in_flight) = 1

\* A Write is at the backend while a Barrier that callers wait for is held
\* back at the head of pending.
C3_Witness ==
    /\ Len(in_flight) = 1
    /\ IsWrite(reqs[in_flight[1]])
    /\ queue # <<>>
    /\ IsBarrier(reqs[Head(queue)])
    /\ num_waiting_for_cb > 0
    /\ error_ret = 0

\* C4: when blkqueue_flush returns 0, the device holds the bytes of every
\* pwrite issued before it that no later pwrite overlapped.
C4_RoundTrip ==
    (flush_pc = "ret" /\ flush_res = 0)
    => \A c \in Ctxs :
         lastw[c] # NoWrite
         => \A k \in 1..Len(lastw[c].buf) :
              disk[lastw[c].off + k - 1] = lastw[c].buf[k]

\* The merge rule of barrier(ctx) as a relation between the lists before and
\* after the call.
C5Rule(c) ==
    LET cand == {i \in 1..Len(sections) : reqs[sections[i]].section >= ctx[c]}
    IN  IF cand # {}
        THEN /\ PendingRecs' = PendingRecs
             /\ SectionRecs' = SectionRecs
             /\ ctx'[c] = reqs[sections[SetMin(cand)]].section + 1
        ELSE /\ PendingRecs' = Append(PendingRecs, NewBarrier(ctx[c]))
             /\ SectionRecs' = Append(SectionRecs, NewBarrier(ctx[c]))
             /\ ctx'[c] = ctx[c] + 1

\* C5 as stated: barrier(ctx) leaves pending and sections as the merge rule
\* says (unchanged on a merge, one Barrier more at the tail otherwise).
C5_Original == [][\A c \in Ctxs : Barrier(c) => C5Rule(c)]_vars

\* The state the merge rule gives, before the queue is started.
C5Mid(w, c) ==
    LET cand == {i \in 1..Len(w.sections) :
                    w.reqs[w.sections[i]].section >= w.ctx[c]}
    IN  IF cand # {}
        THEN [w EXCEPT !.ctx[c] =
                  w.reqs[w.sections[SetMin(cand)]].section + 1]
        ELSE [w EXCEPT !.reqs[AllocId(w)] = NewBarrier(w.ctx[c]),
                       !.queue = Append(@, AllocId(w)),
                       !.sections = Append(@, AllocId(w)),
                       !.queue_size = @ + 1,
                       !.ctx[c] = @ + 1]

\* C5, amended: barrier(ctx) applies the merge rule and then starts the queue;
\* the state it returns in is the rule's outcome followed by
\* blkqueue_process_request.
C5_Amended ==
    [][\A c \in Ctxs :
         Barrier(c)
         => \E w2 \in blkqueue_process_request(C5Mid(World, c)) :
                World' = Renumber(w2)]_vars

\* Both contexts have closed section 0 with the one Barrier of section 0.
C5_Witness ==
    /\ \A c \in Ctxs : ctx[c] = 1
    /\ Len(queue) = 1
    /\ reqs[queue[1]] = NewBarrier(0)
    /\ sections = queue
    /\ in_flight = <<>>
    /\ nerr = 0
    /\ \A a \in AcbIds : acb[a].st = "unused"

\* The place of a new Write of context c in pending after the call.
C6Placed(c) ==
    \E k \in 1..Len(queue') :
        /\ IsWrite(reqs'[queue'[k]])
        /\ Shapes(RemoveAt(PendingRecs', k)) = Shapes(PendingRecs)
        /\ LET cand == {i \in 1..Len(sections') :
                           reqs'[sections'[i]].section >= ctx'[c]}
           IN  IF cand # {}
               THEN k < Len(queue') /\ queue'[k + 1] = sections'[SetMin(cand)]
               ELSE k = Len(queue')

\* C6 as stated: a pwrite that creates a request leaves it in pending right
\* before the first Barrier of its section or a later one, else at the tail;
\* the other requests keep their order.
C6_Original ==
    [][\A c \in Ctxs, off \in Offsets : \A size \in 1..(DiskSize - off) :
         (NumWrites' > NumWrites /\ Pwrite(c, off, size, Prefill))
         => C6Placed(c)]_vars

\* The state the placement rule gives for a new Write, before the queue is
\* started.
C6Mid(w, c, offset, buf) ==
    LET cand == {i \in 1..Len(w.sections) :
                    w.reqs[w.sections[i]].section >= w.ctx[c]}
        id == AllocId(w)
        new(sec) == [type |-> REQ_TYPE_WRITE, offset |-> offset, buf |-> buf,
                     section |-> sec, acbs |-> <<>>]
    IN  IF cand # {}
        THEN LET b == w.sections[SetMin(cand)]
                 k == IndexOf(w.queue, b)
             IN  [w EXCEPT !.reqs[id] = new(w.reqs[b].section),
                           !.ctx[c] = w.reqs[b].section,
                           !.queue = SubSeq(@, 1, k - 1) \o <<id>>
                                        \o SubSeq(@, k, Len(@)),
                           !.queue_size = @ + 1]
        ELSE [w EXCEPT !.reqs[id] = new(w.ctx[c]),
                       !.queue = Append(@, id),
                       !.queue_size = @ + 1]

\* C6, amended: a pwrite that creates a request for the bytes the overlap
\* walk has left places it by the rule and then starts the queue; the state it
\* returns in is the rule's outcome followed by blkqueue_process_request.
\* (When the walk ends inside a queued request, the new requests are those of
\* its nested pwrite calls.)
C6_Amended ==
    [][\A c \in Ctxs, off \in Offsets : \A size \in 1..(DiskSize - off) :
         (NumWrites' > NumWrites /\ Pwrite(c, off, size, Prefill))
         => LET src == [k \in 1..size |-> Prefill]
            IN  \E s \in PwCheckQueueOverlap(World, c,
                            [offset |-> off, pos |-> 0, size |-> size],
                            src, ctx[c], Len(queue)) :
                  IF s.completed
                  THEN World' = Renumber(s.w)
                  ELSE /\ HasFreeId(s.w)
                       /\ \E w2 \in blkqueue_process_request(
                                  C6Mid(s.w, c, s.offset,
                                        SubSeq(src, s.pos + 1, s.pos + s.size))) :
                             World' = Renumber(w2)]_vars

\* While the backend is busy, a Write stands in pending right before the
\* Barrier of its section: one context has closed that section, the other is
\* still in it.
C6_Witness ==
    /\ Len(in_flight) = 1
    /\ Len(queue) = 2
    /\ IsWrite(reqs[queue[1]])
    /\ IsBarrier(reqs[queue[2]])
    /\ reqs[queue[1]].section = reqs[queue[2]].section
    /\ \E c \in Ctxs : ctx[c] = reqs[queue[2]].section
    /\ \E c \in Ctxs : ctx[c] = reqs[queue[2]].section + 1
    /\ nerr = 0

\* an acb is handed out in this step
Registers(a) == acb[a].st = "unused" /\ acb'[a].st # "unused"

\* C7 as stated: when aio_flush returns, the Barrier that carries the new
\* waiter is the last element of pending.
C7_Original ==
    [][\A a \in AcbIds :
         Registers(a)
         => /\ queue' # <<>>
            /\ IsBarrier(reqs'[queue'[Len(queue')]])
            /\ HasAcb(reqs'[queue'[Len(queue')]], a)]_vars

\* C7, amended: when aio_flush returns, no request stands behind the Barrier
\* that carries the new waiter: it is the last element of pending, or it is
\* alone at the backend with pending empty, or a failed submission has already
\* called the waiter with the error.
C7_Amended ==
    [][\A a \in AcbIds :
         Registers(a)
         => \/ /\ queue' # <<>>
               /\ IsBarrier(reqs'[queue'[Len(queue')]])
               /\ HasAcb(reqs'[queue'[Len(queue')]], a)
            \/ /\ queue' = <<>>
               /\ Len(in_flight') = 1
               /\ IsBarrier(reqs'[in_flight'[1]])
               /\ HasAcb(reqs'[in_flight'[1]], a)
            \/ /\ acb'[a].st = "called"
               /\ acb'[a].ret < 0]_vars

\* The waiter sits on the last Barrier of pending although a Barrier of the
\* same or a later section stands further ahead: that one was passed over.
C7_Witness ==
    \E a \in AcbIds :
        /\ acb[a].st = "attached"
        /\ Len(queue) >= 2
        /\ IsBarrier(reqs[queue[Len(queue)]])
        /\ HasAcb(reqs[queue[Len(queue)]], a)
        /\ \E i \in 1..(Len(queue) - 1) :
              /\ IsBarrier(reqs[queue[i]])
              /\ reqs[queue[i]].section >= reqs[queue[Len(queue)]].section

\* C8: a callback called with 0 waits for nothing any more: every request
\* that was pending or in flight when its aio_flush was called has completed
\* with success.
C8_CallbackAfterDrain ==
    \A a \in AcbIds :
        (acb[a].st = "called" /\ acb[a].ret = 0) => acb[a].owed = {}

\* A callback was called with 0 that had two requests ahead of it.
C8_Witness ==
    \E a \in AcbIds :
        acb[a].st = "called" /\ acb[a].ret = 0 /\ acb[a].waited

\* C9: no callback is called twice; in a run without a failure, once the
\* queue has drained every waiter that was not cancelled has been called, once
\* and with 0.
C9_CalledOnce ==
    \A a \in AcbIds :
        /\ acb[a].ncalls <= 1
        /\ acb[a].st = "called" => acb[a].ncalls = 1
        /\ (nerr = 0 /\ acb[a].st = "called") => acb[a].ret = 0
        /\ (nerr = 0 /\ queue = <<>> /\ in_flight = <<>>)
           => acb[a].st # "attached"

\* One waiter was called with 0 and, after a failure, another with the error,
\* and the queue went on to drain.
C9_Witness ==
    /\ \E a \in AcbIds : acb[a].st = "called" /\ acb[a].ret = 0
    /\ \E a \in AcbIds : acb[a].st = "called" /\ acb[a].ret < 0
    /\ nerr = 1
    /\ queue = <<>>
    /\ in_flight = <<>>

\* C10: every waiter registered by aio_flush (and not cancelled) is called in
\* the end, given only that the backend completes what it was handed.
C10_WaiterCalled ==
    \A a \in AcbIds : (acb[a].st = "attached") ~> (acb[a].st # "attached")

\* The byte ranges [off, off + size) and the one of the Write r meet.
RangeMeets(r, off, size) ==
    r.offset < off + size /\ off < r.offset + Len(r.buf)

\* C11 (I1): sections is exactly the subsequence of the Barrier requests of
\* pending, in the same order; a popped Barrier is then the head of sections.
C11_SectionsAreBarriers ==
    sections = SelectSeq(queue, LAMBDA i : IsBarrier(reqs[i]))

\* A failed Barrier is back at the head of pending and of sections, ahead of
\* a Write and a second Barrier.
C11_Witness ==
    /\ nerr = 1
    /\ werror = "stop"
    /\ in_flight = <<>>
    /\ Len(queue) = 3
    /\ IsBarrier(reqs[queue[1]])
    /\ IsWrite(reqs[queue[2]])
    /\ IsBarrier(reqs[queue[3]])
    /\ Len(sections) = 2

\* C12 (I3): pending holds at most one Barrier of each section.
C12_OneBarrierPerSection ==
    \A i, j \in 1..Len(queue) :
        (i < j /\ IsBarrier(reqs[queue[i]]) /\ IsBarrier(reqs[queue[j]]))
        => reqs[queue[i]].section # reqs[queue[j]].section

\* C13 (I2): section numbers never decrease along pending.
C13_SectionsOrdered ==
    \A i, j \in 1..Len(queue) :
        i < j => reqs[queue[i]].section <= reqs[queue[j]].section

\* C14 (I4): every Write of pending stands before every Barrier of pending
\* whose section is the Write's or a later one.
C14_WriteBeforeItsBarrier ==
    \A i, j \in 1..Len(queue) :
        (/\ IsWrite(reqs[queue[i]])
         /\ IsBarrier(reqs[queue[j]])
         /\ reqs[queue[j]].section >= reqs[queue[i]].section)
        => i < j

\* C15 (I7): a pread called in this state returns with the context's section
\* not lowered, and at least the section of every Write of pending whose
\* bytes meet the range read.
C15_ReadDependency ==
    flush_pc = "idle"
    => \A c \in Ctxs, off \in Offsets : \A size \in 1..(DiskSize - off) :
         LET sec == PreadSection(World, c, off, size)
         IN  /\ sec >= ctx[c]
             /\ \A i \in 1..Len(queue) :
                   (IsWrite(reqs[queue[i]])
                    /\ RangeMeets(reqs[queue[i]], off, size))
                   => sec >= reqs[queue[i]].section

\* C17: pending never holds two Writes of one section whose byte ranges meet.
C17_NoOverlapSameSection ==
    \A i, j \in 1..Len(queue) :
        (/\ i < j
         /\ IsWrite(reqs[queue[i]])
         /\ IsWrite(reqs[queue[j]])
         /\ reqs[queue[i]].section = reqs[queue[j]].section)
        => ~RangeMeets(reqs[queue[i]], reqs[queue[j]].offset,
                       Len(reqs[queue[j]].buf))

\* The Writes of a section below floor among the requests of list l, in order.
WritesBelow(rs, l, floor) ==
    SelectSeq([i \in 1..Len(l) |-> rs[l[i]]],
              LAMBDA r : IsWrite(r) /\ r.section < floor)

\* C16: a pwrite leaves every Write of a section below the caller's section
\* as it was, byte for byte, and its own bytes are afterwards in a Write of
\* the caller's section or a later one.  (A failure whose handler drops the
\* queue removes the requests; their buffers are not compared then.)
C16_MergeFloor ==
    [][\A c \in Ctxs :
         (Pwrite(c, 0, 1, PatOf(c)) /\ (werror = "stop" \/ nerr' = nerr))
         => /\ WritesBelow(reqs', in_flight' \o queue', ctx[c])
                 = WritesBelow(reqs, in_flight \o queue, ctx[c])
            /\ \E i \in ListSet(in_flight' \o queue') :
                  /\ IsWrite(reqs'[i])
                  /\ reqs'[i].section >= ctx[c]
                  /\ reqs'[i].offset = 0
                  /\ reqs'[i].buf = <<PatOf(c)>>]_vars

\* pending holds a Write of an earlier section and, behind it, a Write of a
\* later section to the same byte with other data.
C16_Witness ==
    \E i, j \in 1..Len(queue) :
        /\ i < j
        /\ IsWrite(reqs[queue[i]])
        /\ IsWrite(reqs[queue[j]])
        /\ reqs[queue[i]].section < reqs[queue[j]].section
        /\ reqs[queue[i]].offset = reqs[queue[j]].offset
        /\ reqs[queue[i]].buf # reqs[queue[j]].buf

\* A request with its list of callbacks emptied (QLIST_INIT(&req->acbs)).
Unwaited(r) == [r EXCEPT !.acbs = <<>>]
UnwaitedAll(l) == [i \in 1..Len(l) |-> Unwaited(l[i])]

\* C18: when a completion reports an error and the handler keeps the queue,
\* the failed request is afterwards the first element of pending (and of
\* sections if it is a Barrier), the requests that were pending follow it in
\* their old order, nothing else is in flight or lost, and error_ret is 0.
C18_RetryReinserts ==
    [][(werror = "stop" /\ Complete(0 - EIO))
       => \E id \in ListSet(in_flight) :
            /\ PendingRecs' = <<Unwaited(reqs[id])>> \o UnwaitedAll(PendingRecs)
            /\ SectionRecs' = IF IsBarrier(reqs[id])
                              THEN <<Unwaited(reqs[id])>>
                                       \o UnwaitedAll(SectionRecs)
                              ELSE UnwaitedAll(SectionRecs)
            /\ Len(in_flight') = Len(in_flight) - 1
            /\ error_ret' = 0
            /\ disk' = disk]_vars

\* A failed Write is back at the head of pending with two requests behind it.
C18_Witness ==
    /\ werror = "stop"
    /\ nerr = 1
    /\ error_ret = 0
    /\ flushing < 0
    /\ in_flight = <<>>
    /\ Len(queue) = 3
    /\ IsWrite(reqs[queue[1]])

\* C19 as stated: when a completion reports an error and the handler gives
\* the queue up, the Writes that were pending are still pending afterwards,
\* without waiters.
C19_Original ==
    [][(werror = "report" /\ Complete(0 - EIO))
       => /\ SelectSeq(PendingRecs', IsWrite) = SelectSeq(PendingRecs, IsWrite)
          /\ \A i \in 1..Len(queue') : reqs'[queue'[i]].acbs = <<>>]_vars

\* C19, amended: when a completion reports an error and the handler gives the
\* queue up, every request that was pending is removed, Writes and Barriers
\* alike, with the failed request: pending and sections are empty afterwards,
\* nothing was written to the device, and the error stays latched.
C19_Amended ==
    [][(werror = "report" /\ Complete(0 - EIO))
       => /\ queue' = <<>>
          /\ sections' = <<>>
          /\ Len(in_flight') = Len(in_flight) - 1
          /\ error_ret' = 0 - EIO
          /\ flushing' = 0 - EIO
          /\ disk' = disk]_vars

\* The handler gave up a queue that held two requests: pending is empty, the
\* error is latched, and queue_size still counts the two.
C19_Witness ==
    /\ werror = "report"
    /\ nerr = 1
    /\ error_ret = 0 - EIO
    /\ queue = <<>>
    /\ in_flight = <<>>
    /\ queue_size = 2

\* The waiters linked to the requests of list l.
WaitersOn(l) == {a \in AcbIds : \E i \in 1..Len(l) : HasAcb(reqs[l[i]], a)}

\* C20: on a failed completion every waiter of the failed request and of the
\* pending requests is called, once and with the error, and afterwards no
\* pending request has a waiter.
C20_WaitersFailed ==
    [][Complete(0 - EIO)
       => /\ \A a \in WaitersOn(in_flight \o queue) :
                /\ acb'[a].st = "called"
                /\ acb'[a].ncalls = 1
                /\ acb'[a].ret = 0 - EIO
          /\ \A i \in 1..Len(queue') : reqs'[queue'[i]].acbs = <<>>]_vars

\* One failure has called two waiters with the error, and the handler kept
\* the queue: requests are pending, none with a waiter.
C20_Witness ==
    /\ nerr = 1
    /\ werror = "stop"
    /\ \A a \in AcbIds : acb[a].st = "called" /\ acb[a].ret = 0 - EIO
    /\ Len(queue) >= 2
    /\ in_flight = <<>>

\* C21 (I6): while error_ret is nonzero no request moves from pending to
\* in_flight, whatever is called: nothing is in flight before or after the
\* step, and no submission was tried and failed.
C21_NoSubmitWhileError ==
    [][error_ret # 0
       => /\ in_flight = <<>>
          /\ in_flight' = <<>>
          /\ nerr' = nerr]_vars

\* The error is latched and producers have queued a Write and another request
\* behind it; nothing is in flight.
C21_Witness ==
    /\ error_ret # 0
    /\ flush_pc = "idle"
    /\ Len(queue) = 2
    /\ IsWrite(reqs[queue[1]])
    /\ in_flight = <<>>

\* C22: when blkqueue_flush returns, flushing and error_ret are 0; it returns
\* 0 only with pending and in_flight empty, and otherwise the negative error
\* of the failed completion.
C22_FlushResult ==
    flush_pc = "ret"
    => /\ flushing = 0
       /\ error_ret = 0
       /\ flush_res = 0 => (queue = <<>> /\ in_flight = <<>>)
       /\ flush_res # 0 => (flush_res = 0 - EIO /\ nerr > 0)

\* blkqueue_flush returns the error of a completion that failed while it was
\* running; the handler kept the queue, and requests are still pending.
C22_Witness ==
    /\ flush_pc = "ret"
    /\ flush_res < 0
    /\ werror = "stop"
    /\ Len(queue) >= 2
    /\ in_flight = <<>>

\* C23: when the blkqueue_flush that blkqueue_destroy calls has returned, the
\* assertions of blkqueue_destroy hold: no waiter is counted, and in_flight,
\* pending and sections are empty.
C23_DestroyAsserts == flush_pc = "ret" => blkqueue_destroy(World)

\* C24 as stated: the pair (error_ret, flushing) is always Open (both 0),
\* Flushing (flushing > 0) or Error-Stop (both negative).
C24_Original ==
    \/ error_ret = 0 /\ flushing = 0
    \/ flushing > 0
    \/ error_ret < 0 /\ flushing < 0

\* C24, amended: the pair (error_ret, flushing) is always one of: Open (both
\* 0); Flushing (flushing > 0, no error latched); error latched (the handler
\* gave the queue up: error_ret < 0 and flushing holds the same code); or kept
\* for retry (the handler kept the queue: error_ret is 0 again and flushing
\* holds the error code until the next blkqueue_flush).
C24_Amended ==
    \/ error_ret = 0 /\ flushing = 0
    \/ error_ret = 0 /\ flushing > 0
    \/ error_ret < 0 /\ flushing = error_ret /\ werror = "report"
    \/ error_ret = 0 /\ flushing < 0 /\ werror = "stop"

\* After a failure whose handler kept the queue: error_ret is 0, flushing is
\* negative, and producers have gone on queueing.
C24_Witness ==
    /\ error_ret = 0
    /\ flushing < 0
    /\ flush_pc = "idle"
    /\ nerr = 1
    /\ Len(queue) >= 2

InFlightRecs == [i \in 1..Len(in_flight) |-> reqs[in_flight[i]]]

\* C26: a cancelled waiter is never called afterwards, on completion or on
\* failure; the cancellation takes nothing out of pending, sections or
\* in_flight, so its Barrier goes on as every other request.
C26_CancelledNeverCalled ==
    [][\A a \in AcbIds :
         /\ acb[a].st = "cancelled"
            => (acb'[a].st = "cancelled" /\ acb'[a].ncalls = acb[a].ncalls)
         /\ AioCancel(a)
            => /\ acb'[a].st = "cancelled"
               /\ acb'[a].ncalls = 0
               /\ Shapes(PendingRecs') = Shapes(PendingRecs)
               /\ Shapes(SectionRecs') = Shapes(SectionRecs)
               /\ Shapes(InFlightRecs') = Shapes(InFlightRecs)
               /\ \A i \in ListSet(queue') \cup ListSet(in_flight') :
                     ~HasAcb(reqs'[i], a)]_vars

\* A waiter was cancelled and never called; the queue has since drained
\* without a failure, so its Barrier was submitted and has completed.
C26_Witness ==
    \E a \in AcbIds :
        /\ acb[a].st = "cancelled"
        /\ acb[a].ncalls = 0
        /\ nerr = 0
        /\ queue = <<>>
        /\ in_flight = <<>>

\* The requests of the lists of w, as records.
RecsOf(w, l) == [i \in 1..Len(l) |-> w.reqs[l[i]]]
LiveIn(w) == Cardinality({i \in Ids : w.reqs[i] # NoReq})

\* C27 as stated: when a context calls barrier twice in a row, the second
\* call leaves pending and sections unchanged and does not move the context's
\* section.
C27_Original ==
    flush_pc = "idle"
    => \A c \in Ctxs :
         \A w1 \in blkqueue_barrier(World, c) :
           \A w2 \in blkqueue_barrier(w1, c) :
              /\ RecsOf(w2, w2.queue) = RecsOf(w1, w1.queue)
              /\ RecsOf(w2, w2.sections) = RecsOf(w1, w1.sections)
              /\ w2.ctx[c] = w1.ctx[c]

\* C27, amended: the second of two barrier calls in a row is a barrier call
\* as any other.  It moves the context's section on by at least one more; it
\* allocates nothing only if a Barrier of the context's new section or a later
\* one is on sections to merge with, and otherwise a new Barrier of the section
\* the first call left the context in is queued (or, with a waiter counted or
\* a flush recorded, already submitted).
C27_Amended ==
    flush_pc = "idle"
    => \A c \in Ctxs :
         \A w1 \in blkqueue_barrier(World, c) :
           \A w2 \in blkqueue_barrier(w1, c) :
              /\ w2.ctx[c] >= w1.ctx[c] + 1
              /\ IF \E i \in 1..Len(w1.sections) :
                       w1.reqs[w1.sections[i]].section >= w1.ctx[c]
                 THEN LiveIn(w2) <= LiveIn(w1)
                 ELSE \/ \E i \in ListSet(w2.queue \o w2.in_flight) :
                           /\ IsBarrier(w2.reqs[i])
                           /\ w2.reqs[i].section = w1.ctx[c]
                      \/ w2.nerr > w1.nerr /\ werror = "report"

\* A context has called barrier twice in a row on an idle queue: pending holds
\* the Barriers of sections 0 and 1, and the context is in section 2.
C27_Witness ==
    /\ nerr = 0
    /\ in_flight = <<>>
    /\ Len(queue) = 2
    /\ sections = queue
    /\ reqs[queue[1]] = NewBarrier(0)
    /\ reqs[queue[2]] = NewBarrier(1)
    /\ \E c \in Ctxs : ctx[c] = 2 /\ \A d \in Ctxs \ {c} : ctx[d] = 0

\* C28: Barriers reach the backend in section order.  A step that replaces
\* the Barrier in flight by another Barrier never goes to a lower section.
C28_BarrierOrder ==
    [][(/\ in_flight # <<>> /\ IsBarrier(reqs[in_flight[1]])
        /\ in_flight' # <<>> /\ IsBarrier(reqs'[in_flight'[1]]))
       => reqs'[in_flight'[1]].section >= reqs[in_flight[1]].section]_vars

\* The call of blkqueue_submit_request that returned r from w dispatched a
\* request: it is in flight, or its dispatch failed.
Submitted(w, r) == r.ret = 0 \/ r.w.nerr > w.nerr

\* Some aio_flush waiter is outstanding.
Waiting == \E a \in AcbIds : acb[a].st = "attached"

C30_QueueSize == queue_size = Len(queue) /\ queue_size >= 0

\* C37: serialized submission.  in_flight_num is the number of requests in
\* in_flight, and at most one request is in flight.
C37_Serialized ==
    /\ in_flight_num = Len(in_flight)
    /\ in_flight_num <= 1

\* A Write is in flight while a Write of the same section waits at the head.
C37_Witness ==
    /\ Len(in_flight) = 1 /\ IsWrite(reqs[in_flight[1]])
    /\ queue # <<>> /\ IsWrite(reqs[Head(queue)])
    /\ reqs[Head(queue)].section = reqs[in_flight[1]].section

\* C38: waiter accounting.  num_waiting_for_cb is the number of waiters
\* attached to the requests in pending and in in_flight.
C38_WaiterCount ==
    num_waiting_for_cb =
        Cardinality({a \in AcbIds :
            \E i \in ListSet(queue \o in_flight) : InList(reqs[i].acbs, a)})

\* C39: blkqueue_pwrite leaves a request in flight as it is (type, offset,
\* buffer, section, waiters); the written bytes are held by Writes in pending.
C39_InFlightUntouched ==
    (flush_pc = "idle" /\ in_flight # <<>>) =>
        \A c \in Ctxs, off \in Offsets, pat \in Pats :
          \A size \in 1..(DiskSize - off) :
            \A w2 \in blkqueue_pwrite(World, c, off,
                                      [k \in 1..size |-> pat], 0, size) :
                /\ w2.in_flight = in_flight
                /\ \A i \in ListSet(in_flight) : w2.reqs[i] = reqs[i]
                /\ \A o \in off..(off + size - 1) :
                     \E j \in ListSet(w2.queue) :
                        /\ IsWrite(w2.reqs[j])
                        /\ o >= w2.reqs[j].offset
                        /\ o < w2.reqs[j].offset + Len(w2.reqs[j].buf)
                        /\ w2.reqs[j].buf[o - w2.reqs[j].offset + 1] = pat

\* A Write is in flight and a pwrite by some context over its whole range,
\* with other data, has an outcome.
C39_Witness ==
    /\ flush_pc = "idle" /\ Len(in_flight) = 1 /\ IsWrite(reqs[in_flight[1]])
    /\ LET req == reqs[in_flight[1]]
       IN  \E c \in Ctxs, pat \in Pats :
             /\ \A k \in 1..Len(req.buf) : req.buf[k] # pat
             /\ blkqueue_pwrite(World, c, req.offset,
                    [k \in 1..Len(req.buf) |-> pat], 0, Len(req.buf)) # {}

\* blkqueue_flush under a backend that completes every request it was given.
SpecFlushLive == Init /\ [][NextFlush]_vars /\ WF_vars(CompleteAny)

\* C36: blkqueue_flush terminates.  A caller inside blkqueue_flush (waiting
\* for a completion, or going round its loop) eventually returns.
C36_FlushTerminates == (flush_pc \notin {"idle", "ret"}) ~> (flush_pc = "ret")

\* blkqueue_flush has returned an error with a request still pending.
C36_Witness == flush_pc = "ret" /\ flush_res < 0 /\ queue # <<>>

\* ------------------------------------------- the unit tests' build
\* The room the tests' queue needs: test_read_order queues six requests.
TestReqs == 6

\* check-block-queue.c: block-queue.c compiled with RUN_TESTS, the queue on
\* the image main opens, fresh contexts.
InitTest ==
    /\ InitState
    /\ reqs = [i \in 1..TestReqs |-> NoReq]
    /\ cache = [c \in Caches |-> qcow2_cache_create(CacheSize, FALSE)]
    /\ RUN_TESTS = TRUE
    /\ open_flags = {"BDRV_O_CACHE_WB"}
    /\ ghost = "none"
    /\ werror = "stop"

\* The calls of test_read_order, QUEUE_WRITE(ctx, offset, buf, size, pattern)
\* and QUEUE_BARRIER(ctx), in any order and any number of times.
NextTest ==
    \/ Pwrite(1, 25, 5, 68)
    \/ Pwrite(1, 5, 5, 18)
    \/ Barrier(1)
    \/ Pwrite(2, 10, 5, 52)
    \/ Pwrite(2, 0, 10, 52)
    \/ Barrier(2)

SpecTest == InitTest /\ [][NextTest]_vars

\* QUEUE_WRITE and QUEUE_BARRIER applied to each world of a set.
QUEUE_WRITE(S, c, off, size, pat) ==
    UNION {blkqueue_pwrite(w, c, off, [k \in 1..size |-> pat], 0, size)
           : w \in S}
QUEUE_BARRIER(S, c) == UNION {blkqueue_barrier(w, c) : w \in S}

\* c1.W(25,5,0x44); c1.Barrier; c1.W(5,5,0x12); c1.Barrier; c2.W(10,5,0x34);
\* c2.W(0,10,0x34); c2.Barrier, from the world w.
ReadOrderCalls(w) ==
    LET s1 == QUEUE_WRITE({w}, 1, 25, 5, 68)
        s2 == QUEUE_BARRIER(s1, 1)
        s3 == QUEUE_WRITE(s2, 1, 5, 5, 18)
        s4 == QUEUE_BARRIER(s3, 1)
        s5 == QUEUE_WRITE(s4, 2, 10, 5, 52)
        s6 == QUEUE_WRITE(s5, 2, 0, 10, 52)
    IN  QUEUE_BARRIER(s6, 2)

NewWrite(off, size, pat, sec) ==
    [type |-> REQ_TYPE_WRITE, offset |-> off, buf |-> [k \in 1..size |-> pat],
     section |-> sec, acbs |-> <<>>]

\* An empty queue with fresh contexts and nothing submitted.
FreshQueue ==
    /\ queue = <<>> /\ in_flight = <<>> /\ sections = <<>>
    /\ \A c \in Ctxs : ctx[c] = 0

\* C31 as stated: after the seven calls pending is Write@25 s0 (0x44),
\* Write@10 s0 (0x34), Barrier s0, Write@5 s1 still holding 0x12, Write@0 s1
\* with c2's data, Barrier s1.
C31_Original ==
    (FreshQueue /\ RUN_TESTS) =>
        /\ ReadOrderCalls(World) # {}
        /\ \A w \in ReadOrderCalls(World) :
             RecsOf(w, w.queue) =
                <<NewWrite(25, 5, 68, 0), NewWrite(10, 5, 52, 0), NewBarrier(0),
                  NewWrite(5, 5, 18, 1), NewWrite(0, 5, 52, 1), NewBarrier(1)>>

\* C31, amended: same-section overwrite scenario.  After the seven calls
\* pending is Write@25 s0 (0x44), Write@10 s0 (0x34), Barrier s0, Write@5 s1
\* overwritten in place with c2's 0x34, Write@0 s1 of five bytes with c2's
\* data, Barrier s1; both contexts are in section 2.
C31_Amended ==
    (FreshQueue /\ RUN_TESTS) =>
        /\ ReadOrderCalls(World) # {}
        /\ \A w \in ReadOrderCalls(World) :
             /\ RecsOf(w, w.queue) =
                  <<NewWrite(25, 5, 68, 0), NewWrite(10, 5, 52, 0),
                    NewBarrier(0), NewWrite(5, 5, 52, 1),
                    NewWrite(0, 5, 52, 1), NewBarrier(1)>>
             /\ w.ctx[1] = 2 /\ w.ctx[2] = 2
             /\ w.in_flight = <<>>

\* The queue test_read_order checks, reached by the calls themselves.
C31_Witness ==
    /\ RUN_TESTS
    /\ PendingRecs =
          <<NewWrite(25, 5, 68, 0), NewWrite(10, 5, 52, 0), NewBarrier(0),
            NewWrite(5, 5, 52, 1), NewWrite(0, 5, 52, 1), NewBarrier(1)>>
    /\ ctx[1] = 2 /\ ctx[2] = 2

\* The byte range the tests' merging writes lie in, and the longest queue
\* they are issued to.
MergeSpan == 3
MergeReqs == 4

\* The unit tests' build again: writes of every range within MergeSpan bytes,
\* each context with its own pattern, and barriers.
NextMerge ==
    \/ \E c \in Ctxs, off \in 0..(MergeSpan - 1) :
         \E size \in 1..(MergeSpan - off) :
            Len(queue) < MergeReqs /\ Pwrite(c, off, size, PatOf(c))
    \/ \E c \in Ctxs : Len(queue) < MergeReqs /\ Barrier(c)

SpecMerge == InitTest /\ [][NextMerge]_vars

\* The Write r holds byte o.
Holds(r, o) == IsWrite(r) /\ o >= r.offset /\ o < r.offset + Len(r.buf)

\* The pending Writes a pwrite of context c may merge with: section >= the
\* caller's section.
Mergeable(c) ==
    {i \in ListSet(queue) : IsWrite(reqs[i]) /\ reqs[i].section >= ctx[c]}

\* C35 as stated: a pwrite copies the bytes that pending Writes of the
\* caller's section or later already hold into those buffers and queues only
\* the uncovered remainder as a new request of the context's section; when one
\* such Write covers the whole range, nothing is queued.
C35_Original ==
    RUN_TESTS =>
      \A c \in Ctxs, off \in 0..(MergeSpan - 1), pat \in Pats :
        \A size \in 1..(MergeSpan - off) :
          \A w2 \in blkqueue_pwrite(World, c, off,
                                    [k \in 1..size |-> pat], 0, size) :
            LET range == off..(off + size - 1)
                covered == {o \in range :
                              \E i \in Mergeable(c) : Holds(reqs[i], o)}
                added == ListSet(w2.queue) \ ListSet(queue)
            IN  /\ \A o \in covered :
                     \E i \in ListSet(queue) :
                        /\ Holds(w2.reqs[i], o)
                        /\ w2.reqs[i].buf[o - w2.reqs[i].offset + 1] = pat
                /\ \A i \in added :
                     /\ IsWrite(w2.reqs[i])
                     /\ w2.reqs[i].section = w2.ctx[c]
                     /\ \A k \in 1..Len(w2.reqs[i].buf) :
                          /\ w2.reqs[i].offset + k - 1 \in range \ covered
                          /\ w2.reqs[i].buf[k] = pat
                /\ \A o \in range \ covered :
                     \E i \in added : Holds(w2.reqs[i], o)
                /\ (\E i \in Mergeable(c) : \A o \in range : Holds(reqs[i], o))
                   => w2.queue = queue

\* C35, amended: partial in-place merge.  A pwrite copies the bytes held by
\* pending Writes of the caller's section or later into those buffers and
\* queues only the rest, except behind a pending Write that lies strictly
\* inside the range: the bytes to its right are written by a pwrite of their
\* own, for which the context's section as advanced by then is the floor.
\* So every byte of the range ends up with the new data in pending; a byte
\* held by a mergeable Write, with no mergeable Write strictly inside the
\* range left of it, is in an existing buffer; a byte no mergeable Write holds
\* is in a new request; a new request lies within the range, has a section
\* between the caller's old and new one, and holds no byte that an existing
\* Write of its section or later holds; and when one mergeable Write covers
\* the whole range and none lies strictly inside it, nothing is queued.
C35_Amended ==
    RUN_TESTS =>
      \A c \in Ctxs, off \in 0..(MergeSpan - 1), pat \in Pats :
        \A size \in 1..(MergeSpan - off) :
          \A w2 \in blkqueue_pwrite(World, c, off,
                                    [k \in 1..size |-> pat], 0, size) :
            LET range == off..(off + size - 1)
                covered == {o \in range :
                              \E i \in Mergeable(c) : Holds(reqs[i], o)}
                added == ListSet(w2.queue) \ ListSet(queue)
                inside == {i \in Mergeable(c) :
                              /\ reqs[i].offset > off
                              /\ reqs[i].offset + Len(reqs[i].buf) < off + size}
                has(i, o) == /\ Holds(w2.reqs[i], o)
                             /\ w2.reqs[i].buf[o - w2.reqs[i].offset + 1] = pat
            IN  /\ \A o \in range : \E i \in ListSet(w2.queue) : has(i, o)
                /\ \A o \in covered :
                     (\A i \in inside : reqs[i].offset > o)
                     => \E i \in ListSet(queue) : has(i, o)
                /\ \A o \in range \ covered : \E i \in added : has(i, o)
                /\ \A i \in added :
                     /\ IsWrite(w2.reqs[i])
                     /\ w2.reqs[i].section >= ctx[c]
                     /\ w2.reqs[i].section <= w2.ctx[c]
                     /\ \A k \in 1..Len(w2.reqs[i].buf) :
                          LET o == w2.reqs[i].offset + k - 1
                          IN  /\ o \in range
                              /\ w2.reqs[i].buf[k] = pat
                              /\ \A j \in ListSet(queue) :
                                   (/\ Holds(reqs[j], o)
                                    /\ reqs[j].section >= w2.reqs[i].section)
                                   => FALSE
                /\ (/\ \E i \in Mergeable(c) : \A o \in range : Holds(reqs[i], o)
                    /\ inside = {})
                   => w2.queue = queue

\* A mergeable Write covers the whole range, another one lies strictly
\* inside it, and the pwrite has an outcome.
C35_Witness ==
    /\ RUN_TESTS
    /\ \E c \in Ctxs : \E i \in Mergeable(c), j \in Mergeable(c) :
         /\ reqs[i].offset = 0 /\ Len(reqs[i].buf) = MergeSpan
         /\ reqs[j].offset > 0
         /\ reqs[j].offset + Len(reqs[j].buf) < MergeSpan
         /\ reqs[j].section > ctx[c]
         /\ blkqueue_pwrite(World, c, 0, [k \in 1..MergeSpan |-> 1], 0,
                            MergeSpan) # {}

\* ------------------------------------------- the table cache at work
CW == [cache |-> cache, co |-> co, hist |-> chist]

SetCW(w) ==
    /\ cache' = w.cache
    /\ co' = w.co
    /\ chist' = w.hist

\* The block queue is not touched by the cache's own functions.
QueueIdle ==
    UNCHANGED <<reqs, queue, in_flight, sections, queue_size, flushing,
                num_waiting_for_cb, error_ret, in_flight_num, in_flight_type,
                ctx, disk, acb, open_flags, RUN_TESTS, flush_pc, flush_res,
                ghost, nerr, werror, lastw>>

\* Coroutine p enters a cache function.
Enter(p, f) ==
    CoRun([CW EXCEPT !.co[p].st = "run", !.co[p].stack = <<f>>], p)

\* qcow2_cache_get (rd) and qcow2_cache_get_empty (~rd).
CacheGet(p, c, off, rd) ==
    /\ co[p].st = "idle"
    /\ Len(co[p].held) < MaxHeld
    /\ \A i \in 1..cache[c].size : cache[c].entries[i].cache_hits <= MaxHits
    /\ SetCW(Enter(p, [Frame("do_get", c, 0) EXCEPT !.off = off, !.rd = rd]))
    /\ QueueIdle

Without(l, k) == SubSeq(l, 1, k - 1) \o SubSeq(l, k + 1, Len(l))

CachePut(p, k) ==
    /\ co[p].st = "idle"
    /\ k \in 1..Len(co[p].held)
    /\ LET t == co[p].held[k]
           w == [CW EXCEPT !.co[p].held = Without(@, k),
                           !.co[p].st = "run",
                           !.co[p].stack = <<Frame("put", t[1], t[2])>>]
       IN  SetCW(CoRun(w, p))
    /\ QueueIdle

CacheMarkDirty(p, k) ==
    /\ co[p].st = "idle"
    /\ k \in 1..Len(co[p].held)
    /\ LET t == co[p].held[k]
       IN  SetCW(qcow2_cache_entry_mark_dirty(CW, t[1], t[2]))
    /\ QueueIdle

CacheFlush(p, c) ==
    /\ co[p].st = "idle"
    /\ SetCW(Enter(p, Frame("flush", c, 1)))
    /\ QueueIdle

CacheSetDependency(p, c, dependency) ==
    /\ co[p].st = "idle"
    /\ c # dependency
    /\ SetCW(Enter(p, [Frame("set_dependency", c, 0) EXCEPT !.d = dependency]))
    /\ QueueIdle

CacheDependsOnFlush(c) ==
    /\ ~cache[c].depends_on_flush
    /\ cache' = [cache EXCEPT ![c].depends_on_flush = TRUE]
    /\ UNCHANGED <<co, chist>>
    /\ QueueIdle

\* The backend finishes the I/O coroutine p waits for, with ret.
IoDone(p, ret) ==
    /\ co[p].st = "io"
    /\ ret < 0 => chist.nfail < MaxErrors
    /\ LET w == [CW EXCEPT !.co[p].st = "run",
                           !.hist.nfail = IF ret < 0 THEN @ + 1 ELSE @]
       IN  SetCW(CoRun(WithTop(w, p, [Top(w, p) EXCEPT !.ret = ret]), p))
    /\ QueueIdle

\* A coroutine woken from a CoQueue continues.
CoResume(p) ==
    /\ co[p].st = "ready"
    /\ SetCW(CoRun([CW EXCEPT !.co[p].st = "run"], p))
    /\ QueueIdle

InitCache(n1, n2, history) ==
    /\ InitState
    /\ reqs = [i \in Ids |-> NoReq]
    /\ RUN_TESTS = FALSE
    /\ open_flags = {"BDRV_O_CACHE_WB"}
    /\ ghost = history
    /\ werror = "stop"
    /\ cache = [c \in Caches |->
                  qcow2_cache_create(IF c = 1 THEN n1 ELSE n2, FALSE)]

\* One cache of two tables, fetched by the coroutines.
NextFetch ==
    \/ \E p \in Cos, off \in TabOffs, rd \in BOOLEAN : CacheGet(p, 1, off, rd)
    \/ \E p \in Cos, k \in 1..MaxHeld : CachePut(p, k)
    \/ \E p \in Cos, ret \in {0, -EIO} : IoDone(p, ret)
    \/ \E p \in Cos : CoResume(p)

SpecFetch == InitCache(CacheSize, 1, "none") /\ [][NextFetch]_vars

\* One cache of a single table: a changed table is evicted by the next get.
NextEvict ==
    \/ \E p \in Cos, off \in TabOffs : CacheGet(p, 1, off, TRUE)
    \/ \E p \in Cos, k \in 1..MaxHeld : CachePut(p, k)
    \/ \E p \in Cos, k \in 1..MaxHeld : CacheMarkDirty(p, k)
    \/ \E p \in Cos, ret \in {0, -EIO} : IoDone(p, ret)
    \/ \E p \in Cos : CoResume(p)

SpecEvict == InitCache(1, 1, "none") /\ [][NextEvict]_vars

\* One table, changed by its holders while the cache is flushed.
NextWriteback ==
    \/ \E p \in Cos : CacheGet(p, 1, 1, TRUE)
    \/ \E p \in Cos, k \in 1..MaxHeld : CachePut(p, k)
    \/ \E p \in Cos, k \in 1..MaxHeld : CacheMarkDirty(p, k)
    \/ \E p \in Cos : CacheFlush(p, 1)
    \/ \E p \in Cos, ret \in {0, -EIO} : IoDone(p, ret)
    \/ \E p \in Cos : CoResume(p)

SpecWriteback == InitCache(1, 1, "wb") /\ [][NextWriteback]_vars

\* C33: a writeback that returns leaves the table dirty if the table was
\* marked dirty while the write was in progress, and clears the dirty flag
\* only when its write succeeded and nobody marked the table during it.
C33_KeepDirty ==
    chist.wb.c # 0 =>
        /\ chist.wb.redirtied => chist.wb.dirty
        /\ (chist.wb.was_dirty /\ ~chist.wb.dirty) =>
               (chist.wb.ret >= 0 /\ ~chist.wb.redirtied)

Reading(p, c, off) ==
    /\ co[p].stack # <<>>
    /\ co[p].stack[1].fn = "do_get"
    /\ co[p].stack[1].pc = "read"
    /\ co[p].stack[1].c = c
    /\ co[p].stack[1].off = off

\* C34: a coroutine inside get(offset) while another coroutine reads that
\* offset into an entry waits on that entry, and no two entries of a cache
\* hold the same nonzero offset.
C34_ConcurrentFetch ==
    /\ \A p \in Cos, q \in Cos, c \in Caches, off \in TabOffs :
          (/\ p # q
           /\ Reading(p, c, off)
           /\ co[q].stack # <<>>
           /\ co[q].stack[1].fn = "do_get"
           /\ co[q].stack[1].c = c
           /\ co[q].stack[1].off = off)
          => /\ co[q].st = "wait"
             /\ co[q].stack[1].i = co[p].stack[1].i
             /\ InList(cache[c].entries[co[p].stack[1].i].get_queue, q)
    /\ \A c \in Caches : \A i, j \in 1..cache[c].size :
          (i # j /\ cache[c].entries[i].offset # 0)
          => cache[c].entries[i].offset # cache[c].entries[j].offset

\* C40: a get or get_empty that has returned a negative error holds no
\* reference: every reference it took on the way it has given back.
C40_RefBalance ==
    \A p \in Cos :
        (co[p].res.fn = "do_get" /\ co[p].res.ret < 0) => co[p].res.net = 0

\* Two caches of one table each, the first made to depend on the second:
\* coroutine 2 changes tables and sets the dependency, both flush.
NextDepend ==
    \/ \E c \in Caches : CacheGet(2, c, 1, TRUE)
    \/ \E k \in 1..MaxHeld : CacheMarkDirty(2, k)
    \/ \E k \in 1..MaxHeld : CachePut(2, k)
    \/ \E p \in Cos : CacheFlush(p, 1)
    \/ CacheSetDependency(2, 1, 2)
    \/ CacheDependsOnFlush(1)
    \/ \E p \in Cos, ret \in {0, -EIO} : IoDone(p, ret)

SpecDepend == InitCache(1, 1, "dep") /\ [][NextDepend]_vars

\* C32: no table of a cache is written while a table of its dependency that
\* was dirty when the dependency was set is still unwritten, and the
\* dependency stays set until then.
C32_FlushDependency ==
    /\ chist.wr.owed = {}
    /\ \A c \in Caches :
          chist.owes[c].ents # {} => cache[c].depends = chist.owes[c].d

====
